---- MODULE Spec2Model ----
(***************************************************************************)
(* RadioTiker relay: the per-user track catalog (LIBS + <user>.json), the  *)
(* agent registry (AGENTS + <user>.agent.json) and the request handlers of *)
(* streamer_api/routes/core.py that read and write them.                   *)
(*                                                                         *)
(* Python values are modelled as follows.                                  *)
(*  - a str is a sequence of one-character tokens, so that lstrip, split,  *)
(*    quote/unquote and _safe_name are computed character by character;    *)
(*  - None (and a key that dict.get does not find) is NONE for integers,   *)
(*    the empty sequence for strings (both are falsy, the code only tests  *)
(*    truthiness of rel_path and base_url);                                *)
(*  - a dict that is shared by reference (a catalog, its "tracks" dict) is *)
(*    an object of a heap: a handler holds references, and two handlers    *)
(*    running in two worker threads may hold the same one.                 *)
(* Handlers are plain "def" routes: FastAPI runs each request in a worker  *)
(* thread, so the statements of two requests interleave.  Every handler is *)
(* written once, as a step function on (shared state, handler locals);     *)
(* the sequential specification runs a handler to its end in one action,   *)
(* the concurrent ones take one step at a time.                            *)
(***************************************************************************)
EXTENDS Integers, Sequences, FiniteSets, TLC

VARIABLES
    LIBS,        \* storage.LIBS: user_id -> reference of the catalog dict
    heapL,       \* catalog dicts: ref -> [tracks (a ref), version, cleared]
    heapT,       \* "tracks" dicts: ref -> [bad, m]
    AGENTS,      \* storage.AGENTS: user_id -> [base_url, last_seen]
    libFiles,    \* DATA_DIR/<safe>.json
    agentFiles,  \* DATA_DIR/<safe>.agent.json
    now,         \* int(time.time())
    thr,         \* worker threads: the locals of the request each one runs
    resp,        \* the last request that completed, with its response
    ops,         \* number of requests started
    hist         \* history, for the properties only: see NoHistory

vars == <<LIBS, heapL, heapT, AGENTS, libFiles, agentFiles, now, thr, resp, ops, hist>>

(* ------------------------------ bounds -------------------------------- *)
MaxTime  == 2    \* the clock takes MaxTime values, from StartTime on
MaxVer   == 2    \* library_version is 0 or one of MaxVer timestamps
MaxOps   == 3    \* requests in one run of the sequential specification
MaxSize  == 2    \* bytes of the largest file the origin serves
MaxRelays == 1   \* relay requests in one run of the relay specification
MaxTracks == 3   \* files of the largest scan the agent sends
MaxBatch == 2    \* the largest batch_size of send_in_batches
MaxPath  == 2    \* characters of the longest file path tried
MaxRel   == 5    \* characters of the longest rel_path tried
MaxStat  == 12   \* the largest file size and mtime tried

(* --------------------------- Python values ---------------------------- *)
NONE == -1                         \* None / a missing key, where an int is expected
NoStr == << >>                     \* "", and None where only truth is tested
NoneStr == <<"None">>              \* None, where a str is compared: st.get("base_url")
Falsy(str) == str \in {NoStr, NoneStr}   \* not str
EmptyMap == [x \in {} |-> 0]       \* {}

Max(a, b) == IF a >= b THEN a ELSE b

(* ------------------------- utils.normalize_rel_path ------------------- *)
HexDigits == {"0", "1", "2", "3", "4", "5", "6", "7", "8", "9",
              "a", "b", "c", "d", "e", "f", "A", "B", "C", "D", "E", "F"}

\* chr(int(h1 + h2, 16)) for the escapes the path alphabet can spell
HexChar(h1, h2) ==
    CASE h1 = "2" /\ h2 = "0" -> " "
      [] h1 = "2" /\ h2 = "5" -> "%"
      [] h1 = "2" /\ h2 = "2" -> "DQUOTE"
      [] h1 = "2" /\ h2 \in {"F", "f"} -> "/"
      [] h1 = "5" /\ h2 = "0" -> "P"
      [] h1 = "5" /\ h2 = "2" -> "R"
      [] h1 = "5" /\ h2 = "5" -> "U"
      [] h1 = "0" /\ h2 = "0" -> "NUL"
      [] h1 = "0" /\ h2 = "2" -> "STX"
      [] h1 = "0" /\ h2 = "5" -> "ENQ"
      [] OTHER -> "OTHER"

\* urllib.parse.unquote: one left-to-right pass, %XX -> the character
RECURSIVE Unquote(_)
Unquote(s) ==
    IF s = << >> THEN << >>
    ELSE IF Len(s) >= 3 /\ s[1] = "%" /\ s[2] \in HexDigits /\ s[3] \in HexDigits
         THEN <<HexChar(s[2], s[3])>> \o Unquote(SubSeq(s, 4, Len(s)))
         ELSE <<Head(s)>> \o Unquote(Tail(s))

\* the characters quote() leaves alone: letters, digits, "_.-~" and safe=
SafeForQuote == {"x", "y", "P", "R", "U", "0", "2", "5", "F",
                 "_", ".", "-", "~",
                 "@", "!", "$", "&", "'", "(", ")", "*", "+", ",", ";", "=", ":"}

QuoteChar(c) ==
    CASE c \in SafeForQuote -> <<c>>
      [] c = " "      -> <<"%", "2", "0">>
      [] c = "%"      -> <<"%", "2", "5">>
      [] c = "/"      -> <<"%", "2", "F">>
      [] c = "DQUOTE" -> <<"%", "2", "2">>
      [] c = "NUL"    -> <<"%", "0", "0">>
      [] c = "STX"    -> <<"%", "0", "2">>
      [] c = "ENQ"    -> <<"%", "0", "5">>
      [] OTHER        -> <<"%", "X", "X">>

\* urllib.parse.quote(s, safe="@!$&'()*+,;=:_-.")
RECURSIVE Quote(_)
Quote(s) == IF s = << >> THEN << >> ELSE QuoteChar(Head(s)) \o Quote(Tail(s))

\* str.lstrip("/")
RECURSIVE LStripSlash(_)
LStripSlash(s) ==
    IF s # << >> /\ Head(s) = "/" THEN LStripSlash(Tail(s)) ELSE s

\* str.split("/"): the segments, at least one
RECURSIVE SplitSlash(_)
SplitSlash(s) ==
    IF \E i \in 1..Len(s) : s[i] = "/"
    THEN LET i == CHOOSE k \in 1..Len(s) :
                      s[k] = "/" /\ \A j \in 1..(k - 1) : s[j] # "/"
         IN  <<SubSeq(s, 1, i - 1)>> \o SplitSlash(SubSeq(s, i + 1, Len(s)))
    ELSE <<s>>

\* "/".join(segs)
RECURSIVE JoinSlash(_)
JoinSlash(segs) ==
    IF Len(segs) = 1 THEN segs[1]
    ELSE segs[1] \o <<"/">> \o JoinSlash(Tail(segs))

\* a normalization that encodes what it is given, without decoding first
normalize_rel_pathNoUnquote(rel) ==
    LET segs == SplitSlash(LStripSlash(rel))
    IN  JoinSlash([i \in 1..Len(segs) |-> Quote(segs[i])])

normalize_rel_path(rel) ==
    LET segs == SplitSlash(LStripSlash(rel))
    IN  JoinSlash([i \in 1..Len(segs) |-> Quote(Unquote(segs[i]))])

(* ------------------------- storage: file names ------------------------ *)
IsAlnum(ch) == ch \in {"u", "v", "w", "0", "1"}

\* "".join(ch for ch in s if ch.isalnum() or ch in ("-", "_", "."))
_safe_name(s) == SelectSeq(s, LAMBDA ch : IsAlnum(ch) \/ ch \in {"-", "_", "."})

lib_path(user_id) == _safe_name(user_id) \o <<".json">>
agent_path(user_id) == _safe_name(user_id) \o <<".agent.json">>

(* ------------------------ shared state and locals --------------------- *)
\* The process state a handler step reads and writes, as one value.
Shared == [LIBS |-> LIBS, heapL |-> heapL, heapT |-> heapT, AGENTS |-> AGENTS,
           libFiles |-> libFiles, agentFiles |-> agentFiles, now |-> now]

NullRef == << >>

\* The locals of one request: its arguments, the handler's variables, the
\* position in the handler (pc; ret is where load_lib / save_lib return to)
\* and the response under construction.  cleared records whether this
\* request executed tracks.clear().
NoLocals ==
    [pc |-> "idle", ret |-> "idle", tid |-> 0, op |-> "none", user |-> NoStr,
     library |-> << >>, ver |-> NONE, replace |-> FALSE, url |-> NoStr,
     track |-> "", lib |-> NullRef, tracks |-> NullRef, sver |-> NONE,
     i |-> 1, dump |-> [kind |-> "absent"], changed |-> 0, cleared |-> FALSE,
     status |-> 0, count |-> 0, version |-> NONE, base_url |-> NoStr,
     last_seen |-> 0, online |-> FALSE, persisted |-> FALSE, saved |-> FALSE,
     method |-> "", range |-> "None", origin |-> [kind |-> "none"],
     accepts |-> FALSE, sent |-> "None", fetches |-> 0,
     upstream |-> [status |-> -1], crange |-> << >>,
     app |-> "", query |-> "", wire |-> << >>,
     headers |-> [accept |-> "None"],
     stream |-> [kind |-> "none", gen |-> "none", client |-> "none",
                 open |-> FALSE, left |-> 0, over |-> TRUE],
     spawn |-> FALSE, chunks |-> 0]

St(s, l) == [s |-> s, l |-> l]

\* an uncaught exception: FastAPI answers 500 and the handler is over
Raise(s, l) == St(s, [l EXCEPT !.pc = "done", !.status = 500])

Return(s, l, status) == St(s, [l EXCEPT !.pc = "done", !.status = status])

(* ------------------------------ files --------------------------------- *)
\* What a file holds.  kind: "absent" (no file), "garbage" (not JSON: an
\* empty or cut-off file included), "json".  For a catalog file shape is
\* "ok" (an object whose "tracks" is an object), "badtracks" (an object
\* whose "tracks" is an array) or "notlib" (not an object, or no "tracks").
AbsentFile == [kind |-> "absent"]
GarbageFile == [kind |-> "garbage"]

LibJson(shape, m, version, cleared) ==
    [kind |-> "json", shape |-> shape, tracks |-> m,
     version |-> version, cleared |-> cleared]

AgentJson(shape, base_url, last_seen) ==
    [kind |-> "json", shape |-> shape, base_url |-> base_url,
     last_seen |-> last_seen]

\* json.dumps(lib, indent=2): the text of the catalog as it is now
DumpLib(s, ref) ==
    LET lib == s.heapL[ref]
        t == s.heapT[lib.tracks]
    IN  LibJson(IF t.bad THEN "badtracks" ELSE "ok", t.m, lib.version, lib.cleared)

(* --------------------------- storage.load_lib ------------------------- *)
LibRefOf(l) == <<l.user, l.tid>>
FirstDictOf(l) == <<l.user, l.tid, 0>>

load_lib(s, l) ==
    CASE l.pc = "load_lib" ->
           \* if user_id in LIBS: return LIBS[user_id]
           IF l.user \in DOMAIN s.LIBS
           THEN St(s, [l EXCEPT !.lib = s.LIBS[l.user], !.pc = l.ret])
           ELSE St(s, [l EXCEPT !.pc = "load_read"])
      [] l.pc = "load_read" ->
           \* p.exists(), json.loads(p.read_text()), isinstance / "tracks" in obj
           LET f == s.libFiles[lib_path(l.user)]
           IN  IF f.kind = "json" /\ f.shape \in {"ok", "badtracks"}
               THEN St([s EXCEPT
                          !.heapL = (LibRefOf(l) :>
                                       [tracks |-> FirstDictOf(l),
                                        version |-> f.version,
                                        cleared |-> f.cleared]) @@ @,
                          !.heapT = (FirstDictOf(l) :>
                                       [bad |-> f.shape = "badtracks",
                                        m |-> f.tracks]) @@ @],
                       [l EXCEPT !.lib = LibRefOf(l), !.pc = "load_store"])
               ELSE St(s, [l EXCEPT !.lib = NullRef, !.pc = "load_store"])
      [] l.pc = "load_store" ->
           IF l.lib # NullRef
           THEN \* LIBS[user_id] = obj
                St([s EXCEPT !.LIBS = (l.user :> l.lib) @@ @],
                   [l EXCEPT !.pc = l.ret])
           ELSE \* LIBS[user_id] = {"tracks": {}, "version": now, "_cleared_for": 0}
                St([s EXCEPT
                      !.heapL = (LibRefOf(l) :>
                                   [tracks |-> FirstDictOf(l),
                                    version |-> s.now, cleared |-> 0]) @@ @,
                      !.heapT = (FirstDictOf(l) :>
                                   [bad |-> FALSE, m |-> EmptyMap]) @@ @,
                      !.LIBS = (l.user :> LibRefOf(l)) @@ @],
                   [l EXCEPT !.lib = LibRefOf(l), !.pc = l.ret])

(* --------------------------- storage.save_lib ------------------------- *)
\* Path.write_text opens the file with mode "w", which empties it, and
\* then writes the text: two steps, with an empty file in between.
save_lib(s, l) ==
    CASE l.pc = "save_lib" ->
           St([s EXCEPT !.LIBS = (l.user :> l.lib) @@ @],
              [l EXCEPT !.pc = "save_dump"])
      [] l.pc = "save_dump" ->
           St(s, [l EXCEPT !.dump = DumpLib(s, l.lib), !.pc = "save_open"])
      [] l.pc = "save_open" ->
           St([s EXCEPT !.libFiles[lib_path(l.user)] = GarbageFile],
              [l EXCEPT !.pc = "save_write"])
      [] l.pc = "save_write" ->
           St([s EXCEPT !.libFiles[lib_path(l.user)] = l.dump],
              [l EXCEPT !.pc = l.ret])

(* -------------------------- storage.load_agent ------------------------ *)
\* [ok, s, st]: ok is FALSE when st.setdefault raises (the file holds JSON
\* that is not an object); a file that is absent or not JSON gives {}.
load_agent(s, user_id) ==
    IF user_id \in DOMAIN s.AGENTS
    THEN [ok |-> TRUE, s |-> s, st |-> s.AGENTS[user_id]]
    ELSE LET f == s.agentFiles[agent_path(user_id)]
             st == IF f.kind = "json"
                   THEN [base_url |-> f.base_url,
                         last_seen |-> IF f.last_seen = NONE THEN 0
                                       ELSE f.last_seen]
                   ELSE [base_url |-> NoneStr, last_seen |-> 0]
         IN  IF f.kind = "json" /\ f.shape = "notobj"
             THEN [ok |-> FALSE, s |-> s, st |-> st]
             ELSE [ok |-> TRUE,
                   s |-> [s EXCEPT !.AGENTS = (user_id :> st) @@ @],
                   st |-> st]

(* --------------------------- routes: submit_scan ---------------------- *)
\* int(payload.library_version or int(time.time()))
SessionVer(ver, t) == IF ver = NONE \/ ver = 0 THEN t ELSE ver

\* if payload.replace and lib.get("_cleared_for") != session_ver
NeedsClearAlways(replace, cleared_for, session_ver) == replace

NeedsClear(replace, cleared_for, session_ver) ==
    replace /\ cleared_for # session_ver

\* d = t.model_dump(); if d.get("rel_path"): d["rel_path"] = normalize(...)
StoredTrack(t) ==
    [t EXCEPT !.rel_path = IF @ # NoStr THEN normalize_rel_path(@) ELSE @]

\* tracks[d["track_id"]] = d
UpsertAlone(m, d) == (d.track_id :> d)

Upsert(m, d) == (d.track_id :> d) @@ m

\* The preview (the first three records) is computed from tracks after the
\* save and is only returned; the response keeps count and version.
submit_scan(s, l) ==
    CASE l.pc = "ss_tracks" ->
           St(s, [l EXCEPT !.tracks = s.heapL[l.lib].tracks, !.pc = "ss_check"])
      [] l.pc = "ss_check" ->
           LET sv == SessionVer(l.ver, s.now)
           IN  St(s, [l EXCEPT !.sver = sv,
                               !.pc = IF NeedsClear(l.replace, s.heapL[l.lib].cleared, sv)
                                      THEN "ss_clear" ELSE "ss_upsert"])
      [] l.pc = "ss_clear" ->
           St([s EXCEPT !.heapT[l.tracks].m = EmptyMap],
              [l EXCEPT !.cleared = TRUE, !.pc = "ss_mark"])
      [] l.pc = "ss_mark" ->
           St([s EXCEPT !.heapL[l.lib].cleared = l.sver],
              [l EXCEPT !.pc = "ss_upsert"])
      [] l.pc = "ss_upsert" ->
           IF l.i > Len(l.library)
           THEN St(s, [l EXCEPT !.pc = "ss_version"])
           ELSE IF s.heapT[l.tracks].bad
                THEN Raise(s, l)     \* a list takes no str index: TypeError
                ELSE St([s EXCEPT !.heapT[l.tracks].m =
                                     Upsert(@, StoredTrack(l.library[l.i]))],
                        [l EXCEPT !.i = @ + 1])
      [] l.pc = "ss_version" ->
           St([s EXCEPT !.heapL[l.lib].version = l.sver],
              [l EXCEPT !.pc = "save_lib", !.ret = "ss_agent"])
      [] l.pc = "ss_agent" ->
           LET a == load_agent(s, l.user)
           IN  IF ~a.ok THEN Raise(s, l)
               ELSE Return(a.s,
                           [l EXCEPT !.count = Cardinality(DOMAIN s.heapT[l.tracks].m),
                                     !.version = s.heapL[l.lib].version,
                                     !.base_url = a.st.base_url],
                           200)

(* -------------------------- routes: clear_library --------------------- *)
\* a reference no object of the heap has: the dict that {} creates
FreshDict(s, l) ==
    <<l.user, l.tid,
      CHOOSE k \in 1..(Cardinality(DOMAIN s.heapT) + 1) :
          /\ <<l.user, l.tid, k>> \notin DOMAIN s.heapT
          /\ \A j \in 1..(k - 1) : <<l.user, l.tid, j>> \in DOMAIN s.heapT>>

clear_library(s, l) ==
    CASE l.pc = "cl_tracks" ->
           LET d == FreshDict(s, l)
           IN  St([s EXCEPT !.heapT = (d :> [bad |-> FALSE, m |-> EmptyMap]) @@ @,
                            !.heapL[l.lib].tracks = d],
                  [l EXCEPT !.pc = "cl_version"])
      [] l.pc = "cl_version" ->
           St([s EXCEPT !.heapL[l.lib].version = s.now],
              [l EXCEPT !.pc = "cl_mark"])
      [] l.pc = "cl_mark" ->
           St([s EXCEPT !.heapL[l.lib].cleared = 0],
              [l EXCEPT !.pc = "save_lib", !.ret = "cl_ret"])
      [] l.pc = "cl_ret" ->
           Return(s, [l EXCEPT !.version = s.heapL[l.lib].version], 200)

(* ------------------------- routes: migrate_relpaths ------------------- *)
\* if not rel: continue; if new_rel != rel: changed += 1
NeedsMigrationWhenSet(v) == v.rel_path # NoStr

NeedsMigration(v) == v.rel_path # NoStr /\ normalize_rel_path(v.rel_path) # v.rel_path

migrate_relpaths(s, l) ==
    CASE l.pc = "mg_loop" ->
           LET tr == s.heapL[l.lib].tracks
               m == s.heapT[tr].m
               n == Cardinality({k \in DOMAIN m : NeedsMigration(m[k])})
           IN  IF s.heapT[tr].bad
               THEN Raise(s, l)      \* a list has no items(): AttributeError
               ELSE St([s EXCEPT !.heapT[tr].m =
                                    [k \in DOMAIN m |-> StoredTrack(m[k])]],
                       [l EXCEPT !.changed = n, !.tracks = tr,
                                 !.pc = IF n > 0 THEN "mg_version" ELSE "mg_ret"])
      [] l.pc = "mg_version" ->
           St([s EXCEPT !.heapL[l.lib].version = s.now],
              [l EXCEPT !.pc = "save_lib", !.ret = "mg_ret"])
      [] l.pc = "mg_ret" ->
           IF s.heapL[l.lib].version = NONE
           THEN Raise(s, l)          \* lib["version"]: KeyError
           ELSE Return(s, [l EXCEPT !.count = Cardinality(DOMAIN s.heapT[l.tracks].m),
                                    !.version = s.heapL[l.lib].version], 200)

(* --------------------------- routes: get_library ---------------------- *)
get_library(s, l) ==
    LET lib == s.heapL[l.lib]
    IN  IF lib.version = NONE \/ s.heapT[lib.tracks].bad
        THEN Raise(s, l)   \* lib["version"]: KeyError; list.values: AttributeError
        ELSE Return(s, [l EXCEPT !.version = lib.version,
                                 !.count = Cardinality(DOMAIN s.heapT[lib.tracks].m)],
                    200)

(* ------------------------ storage.save_agent_stable ------------------- *)
\* stable = {"base_url": st.get("base_url")}; last_seen is not written
StableAgentWithSeen(st) == AgentJson("obj", st.base_url, st.last_seen)

StableAgent(st) == AgentJson("obj", st.base_url, NONE)

(* --------------------- routes: agent_announce / status ---------------- *)
FreshWindow == 600

\* str.rstrip("/")
RStripNone(s) == s

RECURSIVE RStripSlash(_)
RStripSlash(s) ==
    IF s # << >> /\ s[Len(s)] = "/" THEN RStripSlash(SubSeq(s, 1, Len(s) - 1)) ELSE s

\* bool(base_url) and (int(time.time()) - last_seen < 600)
OnlineNoWindow(base_url, last_seen, t) == ~Falsy(base_url)

Online(base_url, last_seen, t) == ~Falsy(base_url) /\ t - last_seen < FreshWindow

agent_announce(s, l) ==
    CASE l.pc = "aa_body" ->
           LET a == load_agent(s, l.user)
               new_base == RStripSlash(l.url)
               changed == a.st.base_url # new_base
               st == [base_url |-> new_base, last_seen |-> s.now]
           IN  IF ~a.ok THEN Raise(s, l)
               ELSE St([a.s EXCEPT !.AGENTS[l.user] = st],
                       [l EXCEPT !.base_url = new_base, !.persisted = changed,
                                 !.last_seen = s.now,
                                 !.pc = IF changed THEN "asave_open" ELSE "aa_ret"])
      [] l.pc = "asave_open" ->
           St([s EXCEPT !.agentFiles[agent_path(l.user)] = GarbageFile],
              [l EXCEPT !.pc = "asave_write"])
      [] l.pc = "asave_write" ->
           St([s EXCEPT !.agentFiles[agent_path(l.user)] =
                           StableAgent([base_url |-> l.base_url,
                                        last_seen |-> l.last_seen])],
              [l EXCEPT !.saved = TRUE, !.pc = "aa_ret"])
      [] l.pc = "aa_ret" -> Return(s, l, 200)

agent_status(s, l) ==
    LET a == load_agent(s, l.user)
    IN  IF ~a.ok THEN Raise(s, l)
        ELSE Return(a.s,
                    [l EXCEPT !.base_url = a.st.base_url,
                              !.last_seen = a.st.last_seen,
                              !.online = Online(a.st.base_url, a.st.last_seen, s.now)],
                    200)

(* --------------------------- the origin server ------------------------ *)
\* A header value is a string; NoHeader stands for headers.get(...) = None.
NoHeader == "None"
Truthy(h) == h # NoHeader /\ h # ""

\* An HTTP answer of the origin: status, Content-Type, Content-Length (NONE:
\* absent), Content-Range (<<start, end, total>>, << >>: absent; start and
\* end are NONE in "bytes */total"), Accept-Ranges, and two more headers,
\* absent unless the origin adds them: Cache-Control and Server.
Answer(status, ctype, clen, crange, accept) ==
    [status |-> status, ctype |-> ctype, clen |-> clen, crange |-> crange,
     accept |-> accept, cache |-> NoHeader, server |-> NoHeader]

\* requests.RequestException: no answer
Unreachable == [status |-> NONE]

\* re.match(r"bytes=(\d+)-(\d*)$", range_header.strip()), for the Range
\* values of the model: [ok, start, end], end NONE for an open range
ParseRange(h) ==
    CASE h = "bytes=0-"  -> [ok |-> TRUE, start |-> 0, end |-> NONE]
      [] h = "bytes=0-0" -> [ok |-> TRUE, start |-> 0, end |-> 0]
      [] h = "bytes=1-"  -> [ok |-> TRUE, start |-> 1, end |-> NONE]
      [] h = "bytes=1-0" -> [ok |-> TRUE, start |-> 1, end |-> 0]
      [] OTHER           -> [ok |-> FALSE, start |-> NONE, end |-> NONE]

\* SimpleHTTPRequestHandler.send_head, which knows no Range
send_headNoRange(size, ctype, range_header) == Answer(200, ctype, size, << >>, "bytes")

\* local_file_server._QuietHandler.send_head for a file of size bytes and
\* guessed type ctype; HEAD and GET send the same head
send_head(size, ctype, range_header) ==
    IF ~Truthy(range_header)
    THEN Answer(200, ctype, size, << >>, "bytes")
    ELSE LET m == ParseRange(range_header)
             end == IF m.end = NONE THEN size - 1 ELSE m.end
         IN  IF ~m.ok THEN Answer(416, "text/html", NONE, << >>, NoHeader)
             ELSE IF m.start >= size \/ end < m.start
             THEN Answer(416, NoHeader, NONE, <<NONE, NONE, size>>, "bytes")
             ELSE Answer(206, ctype, (IF end >= size THEN size - 1 ELSE end) - m.start + 1,
                         <<m.start, IF end >= size THEN size - 1 ELSE end, size>>,
                         "bytes")

\* what the origin answers to a request of the relay: the agent's file
\* server computes it from the Range header; any other origin answers what
\* it will (probe and main are its two answers)
OriginAnswer(origin, which, range_header) ==
    IF origin.kind = "files"
    THEN \* BaseHTTPRequestHandler.send_response adds the Server header
         [send_head(origin.size, origin.ctype, range_header)
            EXCEPT !.server = "SimpleHTTP"]
    ELSE IF which = "probe" THEN origin.probe ELSE origin.main

(* ------------------- utils.build_stream_url, routes: relay ------------ *)
\* probe.status_code == 206 or Accept-Ranges is "bytes" or a Content-Range
upstream_accepts_ranges(probe) ==
    /\ probe # Unreachable
    /\ \/ probe.status = 206
       \/ probe.accept = "bytes"
       \/ probe.crange # << >>

\* the Range header of the main fetch
ForwardRangeAlways(method, client_range, accepts) ==
    IF Truthy(client_range) THEN client_range
    ELSE IF method = "GET" THEN "bytes=0-" ELSE "bytes=0-0"

ForwardRange(method, client_range, accepts) ==
    IF Truthy(client_range) THEN client_range
    ELSE IF accepts THEN (IF method = "GET" THEN "bytes=0-" ELSE "bytes=0-0")
    ELSE NoHeader

\* media_lc.startswith("audio/mpeg") or ... "audio/aac", "audio/mp4", "audio/x-m4a"
IOS_OK(media) == media \in {"audio/mpeg", "audio/aac", "audio/mp4", "audio/x-m4a"}

\* a URL built whether or not the agent has a base_url
build_stream_urlAnyBase(s, user_id, t) ==
    LET a == load_agent(s, user_id)
    IN  [ok |-> a.ok, s |-> a.s,
         url |-> IF t.rel_path = NoStr THEN NoStr
                 ELSE RStripSlash(a.st.base_url) \o <<"/">> \o LStripSlash(t.rel_path)]

\* a URL only for an agent that agent_status would report online
build_stream_urlOnline(s, user_id, t) ==
    LET a == load_agent(s, user_id)
    IN  [ok |-> a.ok, s |-> a.s,
         url |-> IF ~Online(a.st.base_url, a.st.last_seen, s.now) \/ t.rel_path = NoStr
                 THEN NoStr
                 ELSE RStripSlash(a.st.base_url) \o <<"/">> \o LStripSlash(t.rel_path)]

\* [ok, s, url]: url is NoStr for None
build_stream_url(s, user_id, t) ==
    LET a == load_agent(s, user_id)
    IN  [ok |-> a.ok, s |-> a.s,
         url |-> IF Falsy(a.st.base_url) \/ t.rel_path = NoStr THEN NoStr
                 ELSE RStripSlash(a.st.base_url) \o <<"/">> \o LStripSlash(t.rel_path)]

\* status >= 400
UpstreamFailedNever(status) == FALSE

UpstreamFailed(status) == status >= 400

\* whether the relay probes the origin for a request of this method
ProbeForGetOnly(method) == method = "GET"

ProbeFor(method) == TRUE

\* a request sent to the origin
Wire(kind, method, range_header) == [kind |-> kind, method |-> method, range |-> range_header]

\* the headers of a response of the relay; location is the target of a
\* redirect, [name, user, track, query]
NoLocation == [name |-> "none"]
NoHeaders ==
    [ctype |-> NoHeader, clen |-> NONE, crange |-> << >>, accept |-> NoHeader,
     cache |-> NoHeader, server |-> NoHeader, location |-> NoLocation]

\* for k in [Content-Type, Content-Length, Content-Range, Accept-Ranges,
\* Cache-Control, ...]: copied when the origin sent a value
passthrough(up) ==
    [NoHeaders EXCEPT !.ctype = IF Truthy(up.ctype) THEN up.ctype ELSE NoHeader,
                      !.clen = up.clen,
                      !.crange = up.crange,
                      !.accept = IF Truthy(up.accept) THEN up.accept ELSE NoHeader,
                      !.cache = IF Truthy(up.cache) THEN up.cache ELSE NoHeader]

\* dict.setdefault
SetDefault(v, d) == IF v = NoHeader THEN d ELSE v

\* request.url_for("relay_mp3", user_id=..., track_id=...) and the query
relay_mp3_url(user_id, track_id, query) ==
    [name |-> "relay_mp3", user |-> user_id, track |-> track_id, query |-> query]

\* a streamed body: the generator gen() over a resource (the upstream
\* response, or the encoder process), handed to StreamingResponse.
\* gen: "created" (never started), "suspended" (at yield), "finished"
\* (returned or raised), "collected" (finalized by the interpreter);
\* open: the upstream connection is open / the encoder process is alive;
\* left: the chunks the resource still holds; over: the server has ended
\* the response and calls the generator no more.
NoStream ==
    [kind |-> "none", gen |-> "none", client |-> "none", open |-> FALSE,
     left |-> 0, over |-> TRUE]
StreamOf(kind, left) ==
    [kind |-> kind, gen |-> "created", client |-> "connected", open |-> TRUE,
     left |-> left, over |-> FALSE]

\* the response of requests.get(url, stream=True) when the handler ends
\* without a generator over it: read to its end by upstream.text, which
\* releases the connection, or left unread and open
ReadOut ==
    [kind |-> "upstream", gen |-> "none", client |-> "connected", open |-> FALSE,
     left |-> 0, over |-> TRUE]
Unread(left) ==
    [kind |-> "upstream", gen |-> "none", client |-> "connected", open |-> TRUE,
     left |-> left, over |-> TRUE]

\* streamer-agent/app/main.py: a 200 with a Content-Length and no
\* Content-Range, to a request that carried or implied a Range, becomes 206
Synthesizes(l, up) ==
    /\ (l.sent # NoHeader \/ l.range # NoHeader)
    /\ up.status = 200
    /\ up.clen # NONE
    /\ up.crange = << >>

\* a relay that goes to the origin whatever build_stream_url returned
relay_urlUnchecked(s, l, b) ==
    IF ~b.ok THEN Raise(s, l)
    ELSE St(b.s, [l EXCEPT !.url = b.url, !.pc = "rl_probe"])

\* relay after url = build_stream_url(user_id, t), b
relay_url(s, l, b) ==
    IF ~b.ok THEN Raise(s, l)
    ELSE IF b.url = NoStr THEN Return(b.s, l, 503)
    ELSE St(b.s, [l EXCEPT !.url = b.url,
                           !.pc = IF ProbeFor(l.method) THEN "rl_probe" ELSE "rl_fetch"])

relay(s, l) ==
    CASE l.pc = "rl_body" ->
           LET lib == s.heapL[l.lib]
               tr == s.heapT[lib.tracks]
           IN  IF tr.bad THEN Raise(s, l)          \* list.get: AttributeError
               ELSE IF l.track \notin DOMAIN tr.m THEN Return(s, l, 404)
               ELSE relay_url(s, l, build_stream_url(s, l.user, tr.m[l.track]))
      [] l.pc = "rl_probe" ->
           \* requests.head(url, headers={"Range": "bytes=0-0"}); a failure is only logged
           St(s, [l EXCEPT !.accepts = upstream_accepts_ranges(
                                           OriginAnswer(l.origin, "probe", "bytes=0-0")),
                           !.wire = Append(@, Wire("probe", "HEAD", "bytes=0-0")),
                           !.pc = "rl_fetch"])
      [] l.pc = "rl_fetch" ->
           LET h == ForwardRange(l.method, l.range, l.accepts)
               up == OriginAnswer(l.origin, "main", h)
               l2 == [l EXCEPT !.sent = h, !.fetches = @ + 1, !.upstream = up,
                               !.wire = Append(@, Wire("main", l.method, h))]
           IN  IF up = Unreachable THEN Return(s, l2, 502)
               ELSE IF UpstreamFailed(up.status)
               THEN \* body_preview = upstream.text[:400]
                    Return(s, [l2 EXCEPT !.stream = IF l.method = "HEAD" THEN NoStream
                                                    ELSE ReadOut],
                           up.status)
               ELSE St(s, [l2 EXCEPT !.pc = "rl_respond"])
      [] l.pc = "rl_respond" /\ l.app = "api" ->
           \* streamer_api/routes/core.py
           LET up == l.upstream
               pt == [passthrough(up) EXCEPT !.cache = SetDefault(@, "no-store")]
               media == IF Truthy(up.ctype) THEN up.ctype ELSE "application/octet-stream"
               body == IF up.clen = NONE THEN MaxSize ELSE up.clen
           IN  IF ~IOS_OK(media)
               THEN \* RedirectResponse to relay_mp3
                    Return(s, [l EXCEPT !.headers = [NoHeaders EXCEPT !.location =
                                            relay_mp3_url(l.user, l.track, l.query)],
                                        !.stream = IF l.method = "HEAD" THEN NoStream
                                                   ELSE Unread(body)],
                           302)
               ELSE Return(s, [l EXCEPT !.crange = up.crange,
                                        !.headers = [pt EXCEPT !.ctype = media],
                                        !.stream = IF l.method = "HEAD" THEN NoStream
                                                   ELSE StreamOf("upstream", body)],
                           up.status)
      [] l.pc = "rl_respond" /\ l.app = "agent" ->
           \* streamer-agent/app/main.py
           LET up == l.upstream
               pt == [passthrough(up) EXCEPT !.accept = SetDefault(@, "bytes"),
                                             !.cache = SetDefault(@, "no-store")]
               synth == Synthesizes(l, up)
               cr == IF synth THEN <<0, up.clen - 1, up.clen>> ELSE up.crange
               media == IF Truthy(up.ctype) THEN up.ctype ELSE "audio/mpeg"
               body == IF up.clen = NONE THEN MaxSize ELSE up.clen
           IN  Return(s, [l EXCEPT !.crange = cr,
                                   !.headers = [pt EXCEPT !.ctype = media, !.crange = cr],
                                   !.stream = IF l.method = "HEAD" THEN NoStream
                                              ELSE StreamOf("upstream", body)],
                      IF synth THEN 206 ELSE up.status)

(* ---------------------------- routes: relay_mp3 ----------------------- *)
\* the headers of every answer of relay_mp3
TranscodeHeaders ==
    [NoHeaders EXCEPT !.ctype = "audio/mpeg", !.accept = "none",
                      !.cache = "no-store, must-revalidate"]

\* if request.method == "HEAD": headers only, before the encoder is spawned
HeadersOnlyNever(method) == FALSE

HeadersOnly(method) == method = "HEAD"

\* relay_mp3 after url = build_stream_url(user_id, t), b
relay_mp3_url_built(s, l, b) ==
    IF ~b.ok THEN Raise(s, l)
    ELSE IF b.url = NoStr THEN Return(b.s, l, 503)
    ELSE IF HeadersOnly(l.method)
    THEN Return(b.s, [l EXCEPT !.url = b.url,
                               !.headers = [TranscodeHeaders EXCEPT !.clen = 0]],
                200)
    ELSE St(b.s, [l EXCEPT !.url = b.url, !.pc = "mp_spawn"])

relay_mp3(s, l) ==
    CASE l.pc = "mp_body" ->
           LET lib == s.heapL[l.lib]
               tr == s.heapT[lib.tracks]
           IN  IF tr.bad THEN Raise(s, l)
               ELSE IF l.track \notin DOMAIN tr.m THEN Return(s, l, 404)
               ELSE relay_mp3_url_built(s, l, build_stream_url(s, l.user, tr.m[l.track]))
      [] l.pc = "mp_spawn" ->
           \* subprocess.Popen(cmd, stdout=PIPE): the encoder, or an exception
           IF ~l.spawn THEN Return(s, l, 500)
           ELSE Return(s, [l EXCEPT !.headers = TranscodeHeaders,
                                    !.stream = StreamOf("encoder", l.chunks)],
                       200)

(* ------------------------------ dispatch ------------------------------ *)
Step(s, l) ==
    CASE l.pc \in {"load_lib", "load_read", "load_store"} -> load_lib(s, l)
      [] l.pc \in {"save_lib", "save_dump", "save_open", "save_write"} -> save_lib(s, l)
      [] l.pc \in {"ss_tracks", "ss_check", "ss_clear", "ss_mark", "ss_upsert",
                   "ss_version", "ss_agent"} -> submit_scan(s, l)
      [] l.pc \in {"cl_tracks", "cl_version", "cl_mark", "cl_ret"} -> clear_library(s, l)
      [] l.pc \in {"mg_loop", "mg_version", "mg_ret"} -> migrate_relpaths(s, l)
      [] l.pc = "gl_body" -> get_library(s, l)
      [] l.pc \in {"aa_body", "asave_open", "asave_write", "aa_ret"} -> agent_announce(s, l)
      [] l.pc = "as_body" -> agent_status(s, l)
      [] l.pc \in {"rl_body", "rl_probe", "rl_fetch", "rl_respond"} -> relay(s, l)
      [] l.pc \in {"mp_body", "mp_spawn"} -> relay_mp3(s, l)

\* a handler from its first statement to its response
RECURSIVE Run(_, _)
Resume(r) == Run(r.s, r.l)
Run(s, l) == IF l.pc = "done" THEN St(s, l) ELSE Resume(Step(s, l))

\* the requests
ReqSubmitScan(u, lib, ver, rep) ==
    [NoLocals EXCEPT !.op = "submit_scan", !.user = u, !.library = lib,
                     !.ver = ver, !.replace = rep,
                     !.pc = "load_lib", !.ret = "ss_tracks"]
ReqClearLibrary(u) ==
    [NoLocals EXCEPT !.op = "clear_library", !.user = u,
                     !.pc = "load_lib", !.ret = "cl_tracks"]
ReqMigrate(u) ==
    [NoLocals EXCEPT !.op = "migrate_relpaths", !.user = u,
                     !.pc = "load_lib", !.ret = "mg_loop"]
ReqGetLibrary(u) ==
    [NoLocals EXCEPT !.op = "get_library", !.user = u,
                     !.pc = "load_lib", !.ret = "gl_body"]
ReqAnnounce(u, url) ==
    [NoLocals EXCEPT !.op = "agent_announce", !.user = u, !.url = url,
                     !.pc = "aa_body"]
ReqStatus(u) ==
    [NoLocals EXCEPT !.op = "agent_status", !.user = u, !.pc = "as_body"]
ReqRelay(u, id, method, range, origin) ==
    [NoLocals EXCEPT !.op = "relay", !.app = "api", !.user = u, !.track = id,
                     !.method = method, !.range = range, !.origin = origin,
                     !.pc = "load_lib", !.ret = "rl_body"]
\* the relay of streamer-agent/app/main.py (app = "agent") or of
\* streamer_api (app = "api"), with the query string of the request
ReqRelayOf(app, u, id, method, range, origin, query) ==
    [ReqRelay(u, id, method, range, origin) EXCEPT !.app = app, !.query = query]
ReqRelayMp3(u, id, method, range, spawn, chunks) ==
    [NoLocals EXCEPT !.op = "relay_mp3", !.app = "api", !.user = u, !.track = id,
                     !.method = method, !.range = range, !.spawn = spawn,
                     !.chunks = chunks,
                     !.pc = "load_lib", !.ret = "mp_body"]

(* ------------------------------- heap --------------------------------- *)
\* Between two requests that run one after the other no handler holds a
\* reference, so each catalog is named after its user.
Canon(s) ==
    [s EXCEPT
       !.LIBS = [u \in DOMAIN s.LIBS |-> <<u, 0>>],
       !.heapL = [r \in {<<u, 0>> : u \in DOMAIN s.LIBS} |->
                    [s.heapL[s.LIBS[r[1]]] EXCEPT !.tracks = <<r[1], 0, 0>>]],
       !.heapT = [d \in {<<u, 0, 0>> : u \in DOMAIN s.LIBS} |->
                    s.heapT[s.heapL[s.LIBS[d[1]]].tracks]]]

\* With requests in progress: the objects some reference still reaches.
Gc(s, locals) ==
    LET libRefs == {s.LIBS[u] : u \in DOMAIN s.LIBS}
                   \cup {locals[t].lib : t \in DOMAIN locals}
        liveL == libRefs \cap DOMAIN s.heapL
        liveT == ({s.heapL[r].tracks : r \in liveL}
                  \cup {locals[t].tracks : t \in DOMAIN locals}) \cap DOMAIN s.heapT
    IN  [s EXCEPT !.heapL = [r \in liveL |-> s.heapL[r]],
                  !.heapT = [d \in liveT |-> s.heapT[d]]]

SetShared(s) ==
    /\ LIBS' = s.LIBS
    /\ heapL' = s.heapL
    /\ heapT' = s.heapT
    /\ AGENTS' = s.AGENTS
    /\ libFiles' = s.libFiles
    /\ agentFiles' = s.agentFiles
    /\ now' = s.now

\* what is kept of a finished request
Response(l) ==
    [op |-> l.op, user |-> l.user, library |-> l.library, ver |-> l.ver,
     replace |-> l.replace, url |-> l.url, track |-> l.track,
     status |-> l.status, count |-> l.count, version |-> l.version,
     cleared |-> l.cleared, changed |-> l.changed, base_url |-> l.base_url,
     last_seen |-> l.last_seen, online |-> l.online, persisted |-> l.persisted,
     saved |-> l.saved, method |-> l.method, range |-> l.range,
     origin |-> l.origin, accepts |-> l.accepts, sent |-> l.sent,
     fetches |-> l.fetches,
     upstream |-> l.upstream, crange |-> l.crange,
     app |-> l.app, query |-> l.query, wire |-> l.wire,
     headers |-> l.headers, stream |-> l.stream,
     spawn |-> l.spawn, chunks |-> l.chunks]

(* ------------------------------ inputs -------------------------------- *)
\* int(time.time()) when the process starts: seconds since 1970, so more
\* than the freshness window of agent_status
StartTime == FreshWindow + 1

\* two user ids; _safe_name drops the "@"
Users == {<<"u">>, <<"u", "@">>}

TrackA  == [track_id |-> "A", rel_path |-> <<"x", " ">>, file_size |-> 1]
TrackA2 == [track_id |-> "A", rel_path |-> <<"/", "x", "%", "2", "0">>, file_size |-> 2]
TrackB  == [track_id |-> "B", rel_path |-> NoStr, file_size |-> 1]
Scanned == {TrackA, TrackA2, TrackB}
TrackIds == {t.track_id : t \in Scanned}

\* the payloads: one scanned file, or two
Batches == {<<TrackA>>, <<TrackA2>>, <<TrackB>>, <<TrackA, TrackB>>}
\* library_version; the code takes None for 0 (SessionVer)
Versions == {0} \cup (StartTime..(StartTime + MaxVer - 1))
Urls == {<<"h">>, <<"h", "/">>, <<"/">>}

Threads == {1, 2}

Methods == {"GET", "HEAD"}
\* the client's Range header: none, empty, a byte range, a range whose end
\* is before its start, or a suffix range, which the file server's pattern
\* does not match
ClientRanges == {NoHeader, "", "bytes=1-", "bytes=1-0", "bytes=-1"}
MediaTypes == {"audio/mpeg", "audio/flac", NoHeader}
\* guess_type(path) of the file server: a type for every file
FileTypes == {"audio/mpeg", "audio/flac", "application/octet-stream"}

\* the agent's file server, serving a file of size bytes
FileServer(size, ctype) == [kind |-> "files", size |-> size, ctype |-> ctype]
\* another origin, with its answer to the probe and to the main fetch
OtherServer(probe, main) == [kind |-> "any", probe |-> probe, main |-> main]

ProbeAnswers ==
    {Unreachable,
     Answer(206, "audio/mpeg", 1, <<0, 0, MaxSize>>, "bytes"),
     Answer(200, "audio/mpeg", MaxSize, << >>, "bytes"),
     Answer(200, "audio/mpeg", MaxSize, << >>, NoHeader),
     Answer(404, "text/html", NONE, << >>, NoHeader)}

MainAnswers ==
    {Unreachable}
    \cup {Answer(200, c, MaxSize, << >>, "bytes") : c \in MediaTypes}
    \cup {Answer(206, c, MaxSize, <<0, MaxSize - 1, MaxSize>>, "bytes") : c \in MediaTypes}
    \cup {Answer(st, "text/html", NONE, << >>, NoHeader) : st \in {404, 416, 500}}
    \cup {Answer(200, "audio/mpeg", NONE, << >>, NoHeader),
          Answer(200, "audio/mpeg", 0, << >>, NoHeader),
          Answer(200, "audio/mpeg", MaxSize, << >>, "none"),
          [Answer(200, "audio/mpeg", MaxSize, << >>, NoHeader)
             EXCEPT !.cache = "max-age=60", !.server = "nginx"]}

\* the query string of the request
Queries == {"", "t=1"}

Origins ==
    {FileServer(n, c) : n \in 0..MaxSize, c \in FileTypes}
    \cup {OtherServer(p, m) : p \in ProbeAnswers, m \in MainAnswers}

(* ------------------------------ history ------------------------------ *)
\* clearedBy[u]: the library_version values whose replace batch executed
\* tracks.clear() for u; wrote: the users with a completed request that
\* saved the catalog; start: the shared state the concurrent requests
\* started from.
NoHistory == [clearedBy |-> [u \in Users |-> {}], wrote |-> {}, start |-> EmptyMap]

Saved(l) ==
    /\ l.status = 200
    /\ \/ l.op \in {"submit_scan", "clear_library"}
       \/ l.op = "migrate_relpaths" /\ l.changed > 0

Record(h, l) ==
    [h EXCEPT !.clearedBy[l.user] = IF l.op = "submit_scan" /\ l.cleared
                                    THEN @ \cup {l.ver} ELSE @,
              !.wrote = IF Saved(l) THEN @ \cup {l.user} ELSE @]

(* ------------------------ sequential specification -------------------- *)
NoFiles ==
    /\ libFiles = [p \in {lib_path(u) : u \in Users} |-> AbsentFile]
    /\ agentFiles = [p \in {agent_path(u) : u \in Users} |-> AbsentFile]

Init ==
    /\ LIBS = EmptyMap
    /\ heapL = EmptyMap
    /\ heapT = EmptyMap
    /\ AGENTS = EmptyMap
    /\ NoFiles
    /\ now = StartTime
    /\ thr = [t \in Threads |-> NoLocals]
    /\ resp = Response(NoLocals)
    /\ ops = 0
    /\ hist = NoHistory

\* one request, from its first statement to its response
Completed(r) ==
    /\ SetShared(Canon(r.s))
    /\ resp' = Response(r.l)
    /\ hist' = Record(hist, r.l)

Serve(req) ==
    /\ Completed(Run(Shared, req))
    /\ ops' = ops + 1
    /\ UNCHANGED thr

SubmitScan ==
    /\ ops < MaxOps
    /\ \E u \in Users, lib \in Batches, ver \in Versions, rep \in BOOLEAN :
           Serve(ReqSubmitScan(u, lib, ver, rep))

ClearLibrary ==
    /\ ops < MaxOps
    /\ \E u \in Users : Serve(ReqClearLibrary(u))

MigrateRelpaths ==
    /\ ops < MaxOps
    /\ \E u \in Users : Serve(ReqMigrate(u))

GetLibrary ==
    /\ ops < MaxOps
    /\ \E u \in Users : Serve(ReqGetLibrary(u))

AgentAnnounce ==
    /\ ops < MaxOps
    /\ \E u \in Users, url \in Urls : Serve(ReqAnnounce(u, url))

AgentStatus ==
    /\ ops < MaxOps
    /\ \E u \in Users : Serve(ReqStatus(u))

\* a relay request without a Range header, the origin being the agent's
\* file server
Relay ==
    /\ ops < MaxOps
    /\ \E u \in Users, id \in TrackIds :
           Serve(ReqRelay(u, id, "GET", NoHeader, FileServer(MaxSize, "audio/mpeg")))

\* the clock advances
Tick ==
    /\ ops < MaxOps
    /\ now < StartTime + MaxTime - 1
    /\ now' = now + 1
    /\ UNCHANGED <<LIBS, heapL, heapT, AGENTS, libFiles, agentFiles, thr, resp, ops, hist>>

\* the process stops and starts again: the module globals are empty, the
\* files stay
RestartKeepsAgents ==
    /\ ops < MaxOps
    /\ LIBS # EmptyMap \/ AGENTS # EmptyMap
    /\ LIBS' = EmptyMap
    /\ heapL' = EmptyMap
    /\ heapT' = EmptyMap
    /\ resp' = [Response(NoLocals) EXCEPT !.op = "restart"]
    /\ UNCHANGED <<AGENTS, libFiles, agentFiles, now, thr, ops, hist>>

Restart ==
    /\ ops < MaxOps
    /\ LIBS # EmptyMap \/ AGENTS # EmptyMap
    /\ LIBS' = EmptyMap
    /\ heapL' = EmptyMap
    /\ heapT' = EmptyMap
    /\ AGENTS' = EmptyMap
    /\ resp' = [Response(NoLocals) EXCEPT !.op = "restart"]
    /\ UNCHANGED <<libFiles, agentFiles, now, thr, ops, hist>>

Next ==
    \/ SubmitScan
    \/ ClearLibrary
    \/ MigrateRelpaths
    \/ GetLibrary
    \/ AgentAnnounce
    \/ AgentStatus
    \/ Relay
    \/ Tick
    \/ Restart

Spec == Init /\ [][Next]_vars

(* ---------------------- damaged files specification ------------------ *)
\* The process starts on a data directory in which a state file is damaged:
\* not JSON at all, JSON of another shape, or a catalog without "version".
MalformedLib ==
    {GarbageFile,
     LibJson("notlib", EmptyMap, NONE, NONE),
     LibJson("badtracks", EmptyMap, StartTime, 0),
     LibJson("ok", EmptyMap, NONE, 0)}

MalformedAgent == {GarbageFile, AgentJson("notobj", NoStr, NONE)}

Corrupt ==
    /\ ops = 0
    /\ NoFiles
    /\ LIBS = EmptyMap /\ AGENTS = EmptyMap
    /\ \E u \in Users, f \in MalformedLib \cup {AbsentFile},
          g \in MalformedAgent \cup {AbsentFile} :
           /\ f # AbsentFile \/ g # AbsentFile
           /\ libFiles' = [libFiles EXCEPT ![lib_path(u)] = f]
           /\ agentFiles' = [agentFiles EXCEPT ![agent_path(u)] = g]
    /\ ops' = ops + 1
    /\ resp' = [Response(NoLocals) EXCEPT !.op = "corrupt"]
    /\ UNCHANGED <<LIBS, heapL, heapT, AGENTS, now, thr, hist>>

NextFault ==
    \/ Corrupt
    \/ Next

FaultSpec == Init /\ [][NextFault]_vars

(* -------------------- agent liveness specification -------------------- *)
\* The agent routes alone, with a clock that can also pass the freshness
\* window of agent_status in one step.
Wait ==
    /\ ops < MaxOps
    /\ now < StartTime + MaxTime
    /\ now' = now + FreshWindow
    /\ UNCHANGED <<LIBS, heapL, heapT, AGENTS, libFiles, agentFiles, thr, resp, ops, hist>>

NextAgent ==
    \/ AgentAnnounce
    \/ AgentStatus
    \/ Tick
    \/ Wait
    \/ Restart

AgentSpec == Init /\ [][NextAgent]_vars

(* ------------------------ concurrent specification ------------------- *)
\* Two worker threads serve one request each for the same user; the steps
\* of the two handlers interleave.  The process may be killed at any step.
EmptyShared ==
    [LIBS |-> EmptyMap, heapL |-> EmptyMap, heapT |-> EmptyMap, AGENTS |-> EmptyMap,
     libFiles |-> [p \in {lib_path(u) : u \in Users} |-> AbsentFile],
     agentFiles |-> [p \in {agent_path(u) : u \in Users} |-> AbsentFile],
     now |-> StartTime]

ConcUser == <<"u">>

\* the state the two requests find: a process that has served nothing yet
\* and has no files, or one that has served a first scan of ConcUser, and
\* then either still runs or was started again
AfterFirstScan ==
    Canon(Run(EmptyShared, ReqSubmitScan(ConcUser, <<TrackA>>, StartTime, TRUE)).s)

ForgetMemory(s) ==
    [s EXCEPT !.LIBS = EmptyMap, !.heapL = EmptyMap, !.heapT = EmptyMap,
              !.AGENTS = EmptyMap]

StartStates == {EmptyShared, AfterFirstScan, ForgetMemory(AfterFirstScan)}

ConcRequests ==
    {ReqSubmitScan(ConcUser, lib, ver, rep) :
         lib \in {<<TrackA2>>, <<TrackB>>}, ver \in Versions \ {0}, rep \in BOOLEAN}
    \cup {ReqClearLibrary(ConcUser)}
    \cup {ReqAnnounce(ConcUser, url) : url \in Urls}

InitConc ==
    /\ \E s \in StartStates :
           /\ LIBS = s.LIBS
           /\ heapL = s.heapL
           /\ heapT = s.heapT
           /\ AGENTS = s.AGENTS
           /\ libFiles = s.libFiles
           /\ agentFiles = s.agentFiles
           /\ now = s.now
           /\ hist = [NoHistory EXCEPT !.start = s]
    /\ thr = [t \in Threads |-> NoLocals]
    /\ resp = Response(NoLocals)
    /\ ops = 0

Running(l) == l.pc \notin {"idle", "done", "dead"}

\* a request arrives and a worker thread takes it
StartRequest ==
    \E t \in Threads, req \in ConcRequests :
        /\ thr[t].pc = "idle"
        /\ thr' = [thr EXCEPT ![t] = [req EXCEPT !.tid = t]]
        /\ ops' = ops + 1
        /\ UNCHANGED <<LIBS, heapL, heapT, AGENTS, libFiles, agentFiles, now, resp, hist>>

\* a thread executes the next statement of its handler
ThreadStep ==
    \E t \in Threads :
        /\ Running(thr[t])
        /\ LET r == Step(Shared, thr[t])
               locals == [thr EXCEPT ![t] = r.l]
               live == [x \in {y \in Threads : Running(locals[y])} |-> locals[x]]
           IN  /\ SetShared(Gc(r.s, live))
               /\ thr' = locals
               /\ resp' = IF r.l.pc = "done" THEN Response(r.l) ELSE resp
               /\ hist' = IF r.l.pc = "done" THEN Record(hist, r.l) ELSE hist
        /\ UNCHANGED ops

\* the process is killed while a request is in progress
Crash ==
    /\ \E t \in Threads : Running(thr[t])
    /\ thr' = [t \in Threads |-> [thr[t] EXCEPT !.pc = "dead"]]
    /\ LIBS' = EmptyMap
    /\ heapL' = EmptyMap
    /\ heapT' = EmptyMap
    /\ AGENTS' = EmptyMap
    /\ UNCHANGED <<libFiles, agentFiles, now, resp, ops, hist>>

NextConc ==
    \/ StartRequest
    \/ ThreadStep
    \/ Crash

ConcSpec == InitConc /\ [][NextConc]_vars

(* --------------------------- relay specification ---------------------- *)
\* One relay request, with any method, client Range header and origin, to a
\* process that has served nothing yet, one scan, or a scan and an announce.
AfterScan ==
    Canon(Run(EmptyShared, ReqSubmitScan(ConcUser, <<TrackA, TrackB>>, 0, FALSE)).s)

AfterScanAndAnnounce == Canon(Run(AfterScan, ReqAnnounce(ConcUser, <<"h", "/">>)).s)

\* the agent has not announced for the length of the freshness window
AgentSilent == [AfterScanAndAnnounce EXCEPT !.now = @ + FreshWindow]

\* the service was started again after the scan and the announce
Restarted == ForgetMemory(AfterScanAndAnnounce)

InitRelay ==
    /\ \E s \in {EmptyShared, AfterScan, AfterScanAndAnnounce, AgentSilent, Restarted} :
           /\ LIBS = s.LIBS
           /\ heapL = s.heapL
           /\ heapT = s.heapT
           /\ AGENTS = s.AGENTS
           /\ libFiles = s.libFiles
           /\ agentFiles = s.agentFiles
           /\ now = s.now
    /\ thr = [t \in Threads |-> NoLocals]
    /\ resp = Response(NoLocals)
    /\ ops = 0
    /\ hist = NoHistory

RelayAny ==
    /\ ops < MaxRelays
    /\ \E id \in TrackIds, method \in Methods, range \in ClientRanges, origin \in Origins,
          query \in Queries :
           Serve(ReqRelayOf("api", ConcUser, id, method, range, origin, query))

\* the relay of streamer-agent/app/main.py
AppRelayAny ==
    /\ ops < MaxRelays
    /\ \E id \in TrackIds, method \in Methods, range \in ClientRanges, origin \in Origins,
          query \in Queries :
           Serve(ReqRelayOf("agent", ConcUser, id, method, range, origin, query))

RelayMp3Any ==
    /\ ops < MaxRelays
    /\ \E id \in TrackIds, method \in Methods, range \in ClientRanges,
          spawn \in BOOLEAN, chunks \in 0..MaxSize :
           Serve(ReqRelayMp3(ConcUser, id, method, range, spawn, chunks))

NextRelay == RelayAny \/ AppRelayAny \/ RelayMp3Any

RelaySpec == InitRelay /\ [][NextRelay]_vars

\* a step that serves no request
NoRequest == UNCHANGED <<LIBS, heapL, heapT, AGENTS, libFiles, agentFiles, now, thr, ops, hist>>

(* ----------------------- thin_agent_gui: _track_id -------------------- *)
\* A path is a sequence of characters.  "S" is a lone surrogate, which is
\* what os.walk gives for a byte of a file name that is not UTF-8.
Surrogates == {"S"}

\* path.encode("utf-8", "ignore"): a lone surrogate cannot be encoded and
\* is dropped; the other characters of the model are ASCII
RECURSIVE EncodeIgnore(_)
EncodeIgnore(path) ==
    IF path = << >> THEN << >>
    ELSE (IF Head(path) \in Surrogates THEN << >> ELSE <<Head(path)>>)
         \o EncodeIgnore(Tail(path))

Digit(d) == CASE d = 0 -> "0" [] d = 1 -> "1" [] d = 2 -> "2" [] d = 3 -> "3"
              [] d = 4 -> "4" [] d = 5 -> "5" [] d = 6 -> "6" [] d = 7 -> "7"
              [] d = 8 -> "8" [] d = 9 -> "9"

\* str(n) for n >= 0
RECURSIVE Str(_)
Str(n) == IF n < 10 THEN <<Digit(n)>> ELSE Str(n \div 10) \o <<Digit(n % 10)>>

\* the bytes given to h.update, in order
Fingerprinted(path, size, mtime) ==
    EncodeIgnore(path) \o <<"|">> \o Str(size) \o <<"|">> \o Str(mtime)

\* hashlib.sha1(...).hexdigest(), taken to be free of collisions
Sha1(bytes) == <<"sha1", bytes>>

_track_id(path, size, mtime) == Sha1(Fingerprinted(path, size, mtime))

\* the strings of at most n characters of the set chars
RECURSIVE Strings(_, _)
Strings(chars, n) ==
    IF n = 0 THEN {<< >>}
    ELSE LET shorter == Strings(chars, n - 1)
         IN  shorter \cup {Append(s, c) : s \in shorter, c \in chars}

FilePaths == Strings({"a", "|", "1"} \cup Surrogates, MaxPath) \ {<< >>}
Stats == 0..MaxStat
Files == [path : FilePaths, size : Stats, mtime : Stats]

NoId == << >>

\* the scanner has found a file; nothing else of the process matters
InitFile ==
    /\ LIBS = EmptyShared.LIBS
    /\ heapL = EmptyShared.heapL
    /\ heapT = EmptyShared.heapT
    /\ AGENTS = EmptyShared.AGENTS
    /\ libFiles = EmptyShared.libFiles
    /\ agentFiles = EmptyShared.agentFiles
    /\ now = EmptyShared.now
    /\ thr = [t \in Threads |-> NoLocals]
    /\ ops = 0
    /\ hist = NoHistory
    /\ \E f \in Files : resp = [op |-> "file", file |-> f, id |-> NoId, before |-> NoId]

\* size, mtime = _file_fingerprint(full_path); _track_id(full_path, size, mtime)
TrackId ==
    /\ resp.op = "file"
    /\ resp' = [resp EXCEPT !.op = "_track_id",
                            !.id = _track_id(resp.file.path,
                                             resp.file.size, resp.file.mtime)]
    /\ NoRequest

\* the file is written to: its size or its mtime changes, and it is
\* scanned again
Modify ==
    /\ resp.op = "_track_id"
    /\ resp.before = NoId
    /\ \E size \in Stats, mtime \in Stats :
           /\ <<size, mtime>> # <<resp.file.size, resp.file.mtime>>
           /\ resp' = [op |-> "file",
                       file |-> [resp.file EXCEPT !.size = size, !.mtime = mtime],
                       id |-> NoId, before |-> resp.id]
    /\ NoRequest

NextFile == TrackId \/ Modify

FileSpec == InitFile /\ [][NextFile]_vars

(* --------------------- rel_path specification ------------------------- *)
\* the rel_path values an agent may send: raw ("x "), encoded ("x%20"),
\* encoded twice ("x%2520"), with slashes in front or inside
RelPaths == Strings({"x", "/", "%", "2", "0", "5", " "}, MaxRel) \ {<< >>}

InitRel ==
    /\ LIBS = EmptyShared.LIBS
    /\ heapL = EmptyShared.heapL
    /\ heapT = EmptyShared.heapT
    /\ AGENTS = EmptyShared.AGENTS
    /\ libFiles = EmptyShared.libFiles
    /\ agentFiles = EmptyShared.agentFiles
    /\ now = EmptyShared.now
    /\ thr = [t \in Threads |-> NoLocals]
    /\ ops = 0
    /\ hist = NoHistory
    /\ \E p \in RelPaths : resp = [op |-> "rel_path", rel |-> p, out |-> NoStr]

\* submit_scan stores the record of a scanned track
StoreTrack ==
    /\ resp.op = "rel_path"
    /\ resp' = [resp EXCEPT !.op = "stored",
                            !.out = StoredTrack([track_id |-> "A", rel_path |-> resp.rel,
                                                 file_size |-> 1]).rel_path]
    /\ NoRequest

\* the stored rel_path is normalized once more, as a later scan that sends
\* it back, or migrate_relpaths, does
NormalizeAgain ==
    /\ resp.op = "stored"
    /\ resp' = [resp EXCEPT !.op = "again", !.rel = resp.out,
                            !.out = IF resp.out # NoStr THEN normalize_rel_path(resp.out)
                                    ELSE resp.out]
    /\ NoRequest

NextRel == StoreTrack \/ NormalizeAgain

RelSpec == InitRel /\ [][NextRel]_vars

(* -------------------------- streaming specification ------------------- *)
\* One GET to the relay or one request to relay_mp3, and the life of the
\* StreamingResponse it returns: the server calls the generator for chunk
\* after chunk while the client is there.
InitStream ==
    /\ LET s == AfterScanAndAnnounce
       IN  /\ LIBS = s.LIBS
           /\ heapL = s.heapL
           /\ heapT = s.heapT
           /\ AGENTS = s.AGENTS
           /\ libFiles = s.libFiles
           /\ agentFiles = s.agentFiles
           /\ now = s.now
    /\ thr = [t \in Threads |-> NoLocals]
    /\ resp = Response(NoLocals)
    /\ ops = 0
    /\ hist = NoHistory

\* the response before this one holds no open resource
Released == resp.stream.kind = "none" \/ ~resp.stream.open

Streaming == resp.stream.kind # "none" /\ ~resp.stream.over

StreamRelay ==
    /\ ops < MaxRelays
    /\ Released
    /\ \E app \in {"api", "agent"}, range \in {NoHeader, "bytes=1-"}, n \in 0..MaxSize :
           Serve(ReqRelayOf(app, ConcUser, "A", "GET", range,
                            FileServer(n, "audio/mpeg"), ""))

StreamMp3 ==
    /\ ops < MaxRelays
    /\ Released
    /\ \E method \in Methods, range \in {NoHeader, "bytes=1-"}, spawn \in BOOLEAN,
          chunks \in 0..MaxSize :
           Serve(ReqRelayMp3(ConcUser, "A", method, range, spawn, chunks))

\* next(gen): the generator runs to its next yield, or to its end.
\* relay.gen: for chunk in upstream.iter_content(): yield chunk; the
\* connection is released when the body is exhausted.
\* relay_mp3.gen: chunk = p.stdout.read(); if not chunk: break; yield
\* chunk; finally: p.kill().
Pull ==
    /\ Streaming
    /\ resp.stream.gen \in {"created", "suspended"}
    /\ resp' = [resp EXCEPT !.stream =
                   IF @.left > 0
                   THEN [@ EXCEPT !.gen = "suspended", !.left = @ - 1]
                   ELSE [@ EXCEPT !.gen = "finished", !.open = FALSE, !.over = TRUE]]
    /\ NoRequest

\* next(gen) raises: the read of the upstream body or of the encoder's
\* pipe fails.  requests gives the connection up on a failed read;
\* relay_mp3.gen kills the encoder in its finally.
PullFails ==
    /\ Streaming
    /\ resp.stream.gen \in {"created", "suspended"}
    /\ resp' = [resp EXCEPT !.stream = [@ EXCEPT !.gen = "finished", !.open = FALSE,
                                                 !.over = TRUE]]
    /\ NoRequest

\* the client closes its connection
ClientGone ==
    /\ Streaming
    /\ resp.stream.client = "connected"
    /\ resp' = [resp EXCEPT !.stream = [@ EXCEPT !.client = "gone"]]
    /\ NoRequest

\* the server notices that the client is gone and ends the response: it
\* calls the generator no more.  Neither gen() has a statement for this
\* case, so the generator stays where it is.
Abandon ==
    /\ Streaming
    /\ resp.stream.client = "gone"
    /\ resp' = [resp EXCEPT !.stream = [@ EXCEPT !.over = TRUE]]
    /\ NoRequest

\* The interpreter finalizes the generator that nothing calls any more.  A
\* generator suspended at its yield gets GeneratorExit there: relay_mp3.gen
\* runs its finally (p.kill()), relay.gen drops the upstream response,
\* which closes it.  A generator that never started runs nothing: the
\* upstream response is dropped and closed, the encoder is not killed, only
\* the read end of its pipe is closed.
Finalize ==
    /\ resp.stream.kind # "none"
    /\ resp.stream.over
    /\ resp.stream.gen \in {"created", "suspended"}
    /\ resp' = [resp EXCEPT !.stream =
                   [@ EXCEPT !.gen = "collected",
                             !.open = @ /\ resp.stream.kind = "encoder"
                                        /\ resp.stream.gen = "created"]]
    /\ NoRequest

\* the encoder whose pipe was closed ends at its next write, or at the end
\* of its input
BrokenPipe ==
    /\ resp.stream.kind = "encoder"
    /\ resp.stream.gen = "collected"
    /\ resp.stream.open
    /\ resp' = [resp EXCEPT !.stream = [@ EXCEPT !.open = FALSE]]
    /\ NoRequest

NextStream ==
    \/ StreamRelay
    \/ StreamMp3
    \/ Pull
    \/ PullFails
    \/ ClientGone
    \/ Abandon
    \/ Finalize
    \/ BrokenPipe

\* The server goes on calling the generator and notices a closed
\* connection; the operating system ends an encoder that writes to a closed
\* pipe.  When the interpreter finalizes an abandoned generator is not
\* decided by any statement of the handlers: no fairness for Finalize.
StreamSpec ==
    /\ InitStream
    /\ [][NextStream]_vars
    /\ WF_vars(Pull)
    /\ WF_vars(Abandon)
    /\ WF_vars(BrokenPipe)

\* the same with an interpreter that finalizes every abandoned generator
FinalizingSpec == StreamSpec /\ WF_vars(Finalize)

(* ------------------- thin_agent_gui: send_in_batches ------------------ *)
\* One call of send_in_batches(user_id, tracks, log_fn, batch_size, replace)
\* against the service.  resp is the call: its arguments, the version it
\* took from the clock, the index i of the loop, the payloads it has posted
\* and what became of each post.
ScanLists ==
    {l \in UNION {[1..n -> Scanned] : n \in 0..MaxTracks} :
         \A i, j \in DOMAIN l : i # j => l[i] # l[j]}

BatchSizes == 1..MaxBatch

Min(a, b) == IF a <= b THEN a ELSE b

\* tracks[i:i+batch_size]
Chunk(tracks, i, batch_size) == SubSeq(tracks, i + 1, Min(i + batch_size, Len(tracks)))

\* bool(replace and i == 0)
ReplaceFlagEveryBatch(replace, i) == replace

ReplaceFlag(replace, i) == replace /\ i = 0

\* the JSON body of one POST to submit-scan
Payload(c) ==
    [user_id |-> c.user, library |-> Chunk(c.tracks, c.i, c.batch_size),
     library_version |-> c.version, replace |-> ReplaceFlag(c.replace, c.i)]

\* what requests.post met: an answer of submit_scan itself (the batch was
\* handled), an answer of status >= 400 given before the handler ran (the
\* batch was not applied), or an exception
PostOutcome(kind, status, applied) == [kind |-> kind, status |-> status, applied |-> applied]

\* answers given in front of the handler: a body over the size limit of a
\* proxy, no upstream, a request body that fails validation
Refusals == {413, 502, 422}

InitBatch ==
    /\ \E s \in {EmptyShared, AfterScan} :
           /\ LIBS = s.LIBS
           /\ heapL = s.heapL
           /\ heapT = s.heapT
           /\ AGENTS = s.AGENTS
           /\ libFiles = s.libFiles
           /\ agentFiles = s.agentFiles
           /\ now = s.now
    /\ thr = [t \in Threads |-> NoLocals]
    /\ \E tracks \in ScanLists, batch_size \in BatchSizes, replace \in BOOLEAN :
           resp = [op |-> "send_in_batches", user |-> ConcUser, tracks |-> tracks,
                   batch_size |-> batch_size, replace |-> replace,
                   version |-> NONE, i |-> 0, posted |-> << >>, outcomes |-> << >>,
                   pc |-> "call"]
    /\ ops = 0
    /\ hist = NoHistory

NoThread == UNCHANGED <<thr, ops, hist>>

ServerUnchanged == UNCHANGED <<LIBS, heapL, heapT, AGENTS, libFiles, agentFiles, now>>

\* if not tracks: return; version = int(time.time())
Begin ==
    /\ resp.pc = "call"
    /\ resp' = IF resp.tracks = << >> THEN [resp EXCEPT !.pc = "done"]
               ELSE [resp EXCEPT !.version = now, !.pc = "loop"]
    /\ ServerUnchanged
    /\ NoThread

\* for i in range(0, total, batch_size): the next index, or the end
Advance(c, payload, outcome) ==
    [c EXCEPT !.posted = Append(@, payload),
              !.outcomes = Append(@, outcome),
              !.i = @ + c.batch_size,
              !.pc = IF c.i + c.batch_size >= Len(c.tracks) THEN "done" ELSE "loop"]

\* the handler has run to its response
Handled(c, r) ==
    /\ SetShared(Canon(r.s))
    /\ resp' = Advance(c, Payload(c), PostOutcome("answer", r.l.status, r.l.status = 200))

\* requests.post(SUBMIT_URL, json=payload) reaches submit_scan, which
\* answers; the answer is logged
PostHandled ==
    /\ resp.pc = "loop"
    /\ Handled(resp, Run(Shared, ReqSubmitScan(resp.user, Payload(resp).library,
                                               Payload(resp).library_version,
                                               Payload(resp).replace)))
    /\ NoThread

\* the post is answered with a status >= 400 and submit_scan does not run;
\* the answer is logged like any other
PostRefused ==
    /\ resp.pc = "loop"
    /\ \E status \in Refusals :
           resp' = Advance(resp, Payload(resp), PostOutcome("answer", status, FALSE))
    /\ ServerUnchanged
    /\ NoThread

\* except Exception: log and break; the request did not reach the service
PostRaises ==
    /\ resp.pc = "loop"
    /\ resp' = [Advance(resp, Payload(resp), PostOutcome("raised", NONE, FALSE))
                  EXCEPT !.i = resp.i, !.pc = "done"]
    /\ ServerUnchanged
    /\ NoThread

\* the clock advances while the call runs
BatchTick ==
    /\ resp.pc # "done"
    /\ Tick

NextBatch ==
    \/ Begin
    \/ PostHandled
    \/ PostRefused
    \/ PostRaises
    \/ BatchTick

BatchSpec == InitBatch /\ [][NextBatch]_vars

(* ----------------------- migration specification ---------------------- *)
\* migrate_relpaths is the one-time normalization of a library saved before
\* submit_scan normalized rel_path: the service starts on such a file, with
\* the rel_path values as the agent sent them, or on a catalog that
\* submit_scan has written.
LegacyLib ==
    LibJson("ok", ("A" :> TrackA) @@ ("B" :> TrackB), StartTime - 1, 0)

LegacyStart == [EmptyShared EXCEPT !.libFiles[lib_path(ConcUser)] = LegacyLib]

MigrateStarts == {LegacyStart, AfterScan, ForgetMemory(AfterScan)}

InitMigrate ==
    /\ \E s \in MigrateStarts :
           /\ LIBS = s.LIBS
           /\ heapL = s.heapL
           /\ heapT = s.heapT
           /\ AGENTS = s.AGENTS
           /\ libFiles = s.libFiles
           /\ agentFiles = s.agentFiles
           /\ now = s.now
           /\ hist = [NoHistory EXCEPT !.start = s]
    /\ thr = [t \in Threads |-> NoLocals]
    /\ resp = Response(NoLocals)
    /\ ops = 0

NextMigrate ==
    \/ MigrateRelpaths
    \/ GetLibrary
    \/ Tick
    \/ Restart

MigrateSpec == InitMigrate /\ [][NextMigrate]_vars

(* ------------------------------- views -------------------------------- *)
SharedNext == [LIBS |-> LIBS', heapL |-> heapL', heapT |-> heapT', AGENTS |-> AGENTS',
               libFiles |-> libFiles', agentFiles |-> agentFiles', now |-> now']

Loaded(s, u) == u \in DOMAIN s.LIBS

\* the catalog of u in memory
MemView(s, u) ==
    LET lib == s.heapL[s.LIBS[u]]
    IN  [m |-> s.heapT[lib.tracks].m, version |-> lib.version, cleared |-> lib.cleared]

\* the catalog of u a first access would load from its file
FileView(s, u) ==
    LET f == s.libFiles[lib_path(u)]
    IN  IF f.kind = "json" /\ f.shape = "ok"
        THEN [m |-> f.tracks, version |-> f.version, cleared |-> f.cleared]
        ELSE [m |-> EmptyMap, version |-> s.now, cleared |-> 0]

\* the catalog of u the next request for u works on
View(s, u) == IF Loaded(s, u) THEN MemView(s, u) ELSE FileView(s, u)

BatchIds(lib) == {lib[i].track_id : i \in 1..Len(lib)}

SameRequest(a, b) ==
    /\ a.op = b.op
    /\ a.user = b.user
    /\ a.library = b.library
    /\ a.ver = b.ver
    /\ a.replace = b.replace

\* this step is one request of the sequential specification
Served == ops' = ops + 1

(* ------------------------------- claims ------------------------------- *)
\* C1: submit_scan with replace=true, library_version v and tracks T, sent
\* again unchanged right after it succeeded, leaves the same track set and
\* the same count as the first call did.
C1_RetryIdempotent ==
    [][(/\ Served
        /\ resp.op = "submit_scan" /\ resp.status = 200 /\ resp.replace
        /\ SameRequest(resp, resp'))
       => (/\ MemView(SharedNext, resp.user).m = MemView(Shared, resp.user).m
           /\ resp'.count = resp.count)]_vars

\* C1 for the versions the code does not take for "no version"
C1_RetryIdempotentNonZero ==
    [][(/\ Served
        /\ resp.op = "submit_scan" /\ resp.status = 200 /\ resp.replace
        /\ resp.ver # 0
        /\ SameRequest(resp, resp'))
       => (/\ MemView(SharedNext, resp.user).m = MemView(Shared, resp.user).m
           /\ resp'.count = resp.count)]_vars

\* the records of u that a request for u finds, and those it leaves
Before(u) == View(Shared, u).m
After(u) == MemView(SharedNext, u).m
Kept(u) == \A k \in DOMAIN Before(u) : k \in DOMAIN After(u)

\* C2: once a replace batch carrying library_version v has cleared the
\* catalog of a user, no later replace=true batch carrying the same v
\* removes a record of that user, whatever requests came in between.
C2_ClearOncePerVersion ==
    [][(/\ Served
        /\ resp'.op = "submit_scan" /\ resp'.status = 200 /\ resp'.replace
        /\ resp'.ver \in hist.clearedBy[resp'.user])
       => Kept(resp'.user)]_vars

\* C2, amended: a replace=true batch whose session version (library_version,
\* or the clock when library_version is 0 or absent) equals the catalog's
\* cleared_for marker does not clear and removes no record.
C2_ClearOncePerMarker ==
    [][(/\ Served
        /\ resp'.op = "submit_scan" /\ resp'.status = 200 /\ resp'.replace
        /\ View(Shared, resp'.user).cleared = SessionVer(resp'.ver, now))
       => (~resp'.cleared /\ Kept(resp'.user))]_vars

\* a replace batch of a version that had cleared before found records that
\* are not in the batch and kept them
C2_Witness ==
    /\ resp.op = "submit_scan" /\ resp.status = 200 /\ resp.replace
    /\ resp.ver \in hist.clearedBy[resp.user]
    /\ ~resp.cleared
    /\ resp.count > Cardinality(BatchIds(resp.library))

\* C3: a submit_scan batch that does not clear leaves every record whose
\* track_id is not in the batch present and unchanged.
C3_UpsertFrame ==
    [][(/\ Served
        /\ resp'.op = "submit_scan" /\ resp'.status = 200 /\ ~resp'.cleared)
       => \A k \in DOMAIN Before(resp'.user) \ BatchIds(resp'.library) :
              /\ k \in DOMAIN After(resp'.user)
              /\ After(resp'.user)[k] = Before(resp'.user)[k]]_vars

\* [B] upserted with replace=false into a catalog that held A: both are there
C3_Witness ==
    /\ resp.op = "submit_scan" /\ resp.status = 200 /\ ~resp.replace
    /\ resp.library = <<TrackB>>
    /\ Loaded(Shared, resp.user)
    /\ DOMAIN MemView(Shared, resp.user).m = {"A", "B"}

\* C8: once a request for u has saved the catalog, the file of u holds what
\* the memory holds, so that a restart followed by a first access gives the
\* same tracks, version and cleared_for.
C8_PersistedEqualsMemory ==
    \A u \in Users :
        (u \in hist.wrote /\ Loaded(Shared, u)) => FileView(Shared, u) = MemView(Shared, u)

\* C10: a request for one user changes neither the catalog nor the agent
\* state of another user, in memory or on disk.
C10_UserIsolation ==
    [][Served =>
       \A v \in Users \ {resp'.user} :
           /\ Loaded(Shared, v) =>
                  (Loaded(SharedNext, v) /\ MemView(SharedNext, v) = MemView(Shared, v))
           /\ libFiles'[lib_path(v)] = libFiles[lib_path(v)]
           /\ v \in DOMAIN AGENTS =>
                  (v \in DOMAIN AGENTS' /\ AGENTS'[v] = AGENTS[v])
           /\ agentFiles'[agent_path(v)] = agentFiles[agent_path(v)]]_vars

(* ------------------------ claims on concurrency ----------------------- *)
AllDone == \A t \in Threads : thr[t].pc = "done" /\ thr[t].status = 200

BothAre(op) == \A t \in Threads : thr[t].op = op

AllBatchIds == UNION {BatchIds(thr[t].library) : t \in Threads}

\* the catalog file of u, when it holds a whole catalog
FileTracks(u) ==
    IF libFiles[lib_path(u)].kind = "json" THEN DOMAIN libFiles[lib_path(u)].tracks
    ELSE {}

\* C4: two concurrent submit_scan calls with replace=false and disjoint
\* track sets lose no update: when both are done, the catalog in memory and
\* the catalog file hold every track of both.
C4_NoLostUpdate ==
    (/\ AllDone
     /\ BothAre("submit_scan")
     /\ \A t \in Threads : ~thr[t].replace
     /\ BatchIds(thr[1].library) \cap BatchIds(thr[2].library) = {})
    => (/\ AllBatchIds \subseteq DOMAIN MemView(Shared, ConcUser).m
        /\ AllBatchIds \subseteq FileTracks(ConcUser))

\* C5: two concurrent submit_scan calls with replace=true and the same
\* library_version clear at most once between them: when both are done the
\* catalog holds the tracks of both batches and cleared_for is the version.
C5_ConcurrentReplaceClearsOnce ==
    (/\ AllDone
     /\ BothAre("submit_scan")
     /\ \A t \in Threads : thr[t].replace
     /\ thr[1].ver = thr[2].ver)
    => (/\ AllBatchIds \subseteq DOMAIN MemView(Shared, ConcUser).m
        /\ MemView(Shared, ConcUser).cleared = thr[1].ver)

\* the catalog after req1 and then req2, each run alone from the start state
InOrder(req1, req2) ==
    LET a == Canon(Run(hist.start, req1).s)
        b == Canon(Run(a, req2).s)
    IN  MemView(b, ConcUser)

Again(l) ==
    IF l.op = "submit_scan" THEN ReqSubmitScan(l.user, l.library, l.ver, l.replace)
    ELSE ReqClearLibrary(l.user)

\* C6: a clear_library concurrent with a submit_scan is serialized: when
\* both are done, memory and file hold the catalog that one of the two
\* sequential orders gives.
C6_ClearSubmitSerialized ==
    (/\ AllDone
     /\ {thr[t].op : t \in Threads} = {"clear_library", "submit_scan"})
    => \E o \in {<<1, 2>>, <<2, 1>>} :
           LET c == InOrder(Again(thr[o[1]]), Again(thr[o[2]]))
           IN  /\ MemView(Shared, ConcUser) = c
               /\ FileView(Shared, ConcUser) = c

\* C7: when the process is killed during save_lib or save_agent_stable, the
\* file is whole: the previous content or the new one, never a cut-off file.
C7_AtomicWrites ==
    (\E t \in Threads : thr[t].pc = "dead")
    => (/\ \A p \in DOMAIN libFiles : libFiles[p].kind # "garbage"
        /\ \A p \in DOMAIN agentFiles : agentFiles[p].kind # "garbage")

(* ------------------------ claims on damaged files --------------------- *)
\* C9: a damaged catalog or agent file counts as absent, and no get_library,
\* submit_scan, relay or agent_status fails because of it: none of them is
\* answered with an internal error.
C9_MalformedFileAbsorbed ==
    resp.op \in {"get_library", "submit_scan", "relay", "agent_status"}
    => resp.status # 500

(* ------------------------ claims on the version ----------------------- *)
\* C11: after a submit_scan that supplied an integer library_version v, the
\* catalog version is v and the response reports version v.
C11_VersionIsSupplied ==
    (resp.op = "submit_scan" /\ resp.status = 200 /\ resp.ver # NONE)
    => (/\ resp.version = resp.ver
        /\ Loaded(Shared, resp.user) => MemView(Shared, resp.user).version = resp.ver)

\* u has a catalog, in memory or on file
HasCatalog(s, u) == Loaded(s, u) \/ s.libFiles[lib_path(u)].kind = "json"

\* C12: after clear_library the track map is empty, cleared_for is such that
\* a replace batch of any version clears again, and the version differs from
\* the version the catalog had before the clear.
C12_ClearResets ==
    [][(Served /\ resp'.op = "clear_library" /\ resp'.status = 200)
       => LET after == MemView(SharedNext, resp'.user)
          IN  /\ after.m = EmptyMap
              /\ \A v \in Versions : NeedsClear(TRUE, after.cleared, SessionVer(v, now'))
              /\ HasCatalog(Shared, resp'.user)
                 => after.version # View(Shared, resp'.user).version]_vars

(* ------------------------- claims on the agent ------------------------ *)
\* the agent state a request for u finds: AGENTS[u], or what load_agent
\* makes of the file
Found(u) == load_agent(Shared, u).st

NoTrailingSlash(b) == b = NoStr \/ b[Len(b)] # "/"

OnlySlashes(s) == \A i \in 1..Len(s) : s[i] = "/"

\* b is url without the slashes at its end
Stripped(url, b) ==
    /\ NoTrailingSlash(b)
    /\ Len(b) <= Len(url)
    /\ SubSeq(url, 1, Len(b)) = b
    /\ OnlySlashes(SubSeq(url, Len(b) + 1, Len(url)))

\* C13: agent_announce strips the trailing slashes of base_url, sets
\* last_seen to the current time on every call, writes the agent file only
\* when the stripped base_url differs from the stored one, and answers
\* persisted=true exactly when it wrote the file.
C13_AnnouncePersistsOnChange ==
    [][(Served /\ resp'.op = "agent_announce" /\ resp'.status = 200)
       => LET u == resp'.user
          IN  /\ Stripped(resp'.url, resp'.base_url)
              /\ AGENTS'[u].base_url = resp'.base_url
              /\ AGENTS'[u].last_seen = now
              /\ resp'.saved <=> Found(u).base_url # resp'.base_url
              /\ ~resp'.saved => agentFiles' = agentFiles
              /\ resp'.persisted <=> resp'.saved]_vars

\* "http://h/" after "http://h": last_seen is refreshed, nothing is written
C13_Witness ==
    /\ resp.op = "agent_announce" /\ resp.status = 200
    /\ resp.url = <<"h", "/">>
    /\ ~resp.persisted
    /\ now > StartTime
    /\ AGENTS[resp.user].last_seen = now

\* C14: last_seen is never persisted: an agent file holds the base_url
\* field and no last_seen.
C14_LastSeenNotPersisted ==
    \A p \in DOMAIN agentFiles :
        agentFiles[p].kind = "json"
        => agentFiles[p].shape = "obj" /\ agentFiles[p].last_seen = NONE

C14_Witness ==
    /\ resp.op = "restart"
    /\ \E p \in DOMAIN agentFiles :
           agentFiles[p].kind = "json" /\ agentFiles[p].base_url = <<"h">>
    /\ now > StartTime

\* the agent file of u holds a base_url, and which
PersistedBaseUrl(u) ==
    LET f == agentFiles[agent_path(u)]
    IN  IF f.kind = "json" /\ f.shape = "obj" THEN f.base_url ELSE NoneStr

NeverAnnounced(u) == agentFiles[agent_path(u)].kind = "absent"

\* an agent_status for resp'.user is served in this step
StatusServed == Served /\ resp'.op = "agent_status" /\ resp'.status = 200

\* the request before was an announce of the same user, in this second
JustAnnounced ==
    /\ resp.op = "agent_announce" /\ resp.status = 200
    /\ resp.user = resp'.user
    /\ resp.last_seen = now
    /\ resp.user \in DOMAIN AGENTS

OnlineRule ==
    LET st == Found(resp'.user)
    IN  /\ resp'.online <=> (~Falsy(st.base_url) /\ now - st.last_seen < 600)
        /\ NeverAnnounced(resp'.user) => ~resp'.online
        /\ now - st.last_seen >= 600 => ~resp'.online

\* C15: agent_status answers online=false before any announce, online=true
\* right after an announce with a non-empty base_url, online=false once
\* now - last_seen has passed 600 seconds; online is always
\* (base_url is set and now - last_seen < 600).
C15_OnlineWindow ==
    [][StatusServed
       => /\ OnlineRule
          /\ (JustAnnounced /\ resp.url # NoStr) => resp'.online]_vars

\* C15, for an announced base_url that is not empty once its trailing
\* slashes are stripped
C15_OnlineWindowStripped ==
    [][StatusServed
       => /\ OnlineRule
          /\ (JustAnnounced /\ ~OnlySlashes(resp.url)) => resp'.online]_vars

\* the window has passed with no restart: the agent is known and was seen
C15_Witness ==
    /\ resp.op = "agent_status" /\ resp.status = 200
    /\ ~resp.online
    /\ ~Falsy(resp.base_url)
    /\ resp.last_seen >= StartTime

\* u has not announced since the process started
NotSeenYet(u) == u \in DOMAIN AGENTS => AGENTS[u].last_seen = 0

\* C16: after a restart a user is answered online=false until that user's
\* next announce, and the status read that follows the restart answers the
\* base_url of the agent file.
C16_RestartResetsLiveness ==
    [][StatusServed
       => /\ NotSeenYet(resp'.user) => ~resp'.online
          /\ resp.op = "restart"
             => (/\ ~resp'.online
                 /\ resp'.base_url = PersistedBaseUrl(resp'.user))]_vars

\* a status read after a restart, for an agent whose base_url is on file
C16_Witness ==
    /\ resp.op = "agent_status" /\ resp.status = 200
    /\ PersistedBaseUrl(resp.user) = <<"h">>
    /\ resp.base_url = <<"h">>
    /\ ~resp.online
    /\ \A u \in DOMAIN AGENTS : AGENTS[u].last_seen = 0

(* ------------------------- claims on the relay ------------------------ *)
\* a relay request is served in this step
RelayServed == Served /\ resp'.op = "relay"

\* the relay went as far as the main fetch
Fetched == resp.op = "relay" /\ resp.fetches > 0

\* C17: a relay request, GET or HEAD, for a track_id that is not in the
\* catalog of the user fails with 404; for a known track it fails with 503
\* when the user has no base_url or the track has no rel_path.
C17_RelayResolution ==
    [][RelayServed
       => LET m == View(Shared, resp'.user).m
              id == resp'.track
          IN  /\ id \notin DOMAIN m => resp'.status = 404
              /\ (id \in DOMAIN m
                  /\ (Found(resp'.user).base_url \in {NoStr, NoneStr}
                      \/ m[id].rel_path = NoStr))
                 => resp'.status = 503]_vars

\* a HEAD for a known track of a user whose agent never announced
C17_Witness ==
    /\ resp.op = "relay" /\ resp.method = "HEAD"
    /\ resp.status = 503
    /\ resp.track = "A"
    /\ AGENTS[resp.user].base_url = NoneStr

\* C18: the main fetch carries the client's Range header when the client
\* sent one, whatever the probe found; else bytes=0- (GET) or bytes=0-0
\* (HEAD) when the origin was judged range-capable; else no Range header.
C18_RangeRule ==
    Fetched
    => resp.sent = IF resp.range # NoHeader THEN resp.range
                   ELSE IF resp.accepts
                        THEN (IF resp.method = "GET" THEN "bytes=0-" ELSE "bytes=0-0")
                        ELSE NoHeader

\* C18, a Range header with an empty value counting as none
C18_RangeRuleNonEmpty ==
    Fetched
    => resp.sent = IF resp.range \notin {NoHeader, ""} THEN resp.range
                   ELSE IF resp.accepts
                        THEN (IF resp.method = "GET" THEN "bytes=0-" ELSE "bytes=0-0")
                        ELSE NoHeader

\* the client's Range goes to an origin the probe judged not range-capable
C18_Witness ==
    /\ Fetched
    /\ resp.range = "bytes=1-" /\ resp.sent = "bytes=1-"
    /\ ~resp.accepts

\* C19: when the main fetch is answered with a status >= 400 the relay
\* fails with that status; when the origin cannot be reached it fails with
\* 502; the relay makes one main fetch and no more.
C19_UpstreamErrors ==
    resp.op = "relay"
    => /\ resp.fetches <= 1
       /\ (Fetched /\ resp.upstream # Unreachable /\ resp.upstream.status >= 400)
          => resp.status = resp.upstream.status
       /\ (Fetched /\ resp.upstream = Unreachable) => resp.status = 502

C19_Witness ==
    /\ Fetched
    /\ resp.upstream # Unreachable
    /\ resp.upstream.status = 416
    /\ resp.status = 416

\* the size of the track the origin serves
TrackSize(origin) == IF origin.kind = "files" THEN origin.size ELSE MaxSize

\* C20: a GET or HEAD relay request without a Range header, to an origin
\* judged range-capable, is answered 206 with Content-Range
\* bytes 0-(N-1)/N for an N-byte track, never 200.
C20_ImpliedRangeGives206 ==
    (Fetched /\ resp.range = NoHeader /\ resp.accepts)
    => LET n == TrackSize(resp.origin)
       IN  /\ resp.status = 206
           /\ resp.crange = <<0, n - 1, n>>

\* C20 for GET, a playable type and an origin that answers the ranged
\* fetch with 200 and a Content-Length
C20_GetOfPlainAnswer ==
    (/\ Fetched /\ resp.range = NoHeader /\ resp.accepts
     /\ resp.method = "GET"
     /\ resp.upstream = Answer(200, "audio/mpeg", MaxSize, << >>, "bytes"))
    => resp.status = 206

\* the relay got an answer below 400 from the origin and built its response
Answered ==
    /\ Fetched
    /\ resp.upstream # Unreachable
    /\ resp.upstream.status < 400

\* a Range was requested by the client or implied by the relay
RangeRequested == resp.range # NoHeader \/ resp.sent # NoHeader

\* the three conditions of the synthesis
SynthesisDue ==
    /\ RangeRequested
    /\ resp.upstream.status = 200
    /\ resp.upstream.clen # NONE
    /\ resp.upstream.crange = << >>

SynthesisRule ==
    IF SynthesisDue
    THEN /\ resp.status = 206
         /\ resp.headers.crange = <<0, resp.upstream.clen - 1, resp.upstream.clen>>
    ELSE /\ resp.status = resp.upstream.status
         /\ resp.headers.crange = resp.upstream.crange

\* C21: the relay answers 206 with Content-Range bytes 0-(total-1)/total
\* exactly when a Range was requested or implied, the origin answered 200
\* with a Content-Length total and sent no Content-Range; in every other
\* case the origin's status and Content-Range are passed through.
C21_Synthesis == (Answered /\ resp.status # 302) => SynthesisRule

\* C21 for the relay of streamer-agent/app/main.py alone
C21_SynthesisInAgentApp == (Answered /\ resp.app = "agent") => SynthesisRule

\* the types the relay delivers as they are
Playable == {"audio/mpeg", "audio/aac", "audio/mp4", "audio/x-m4a"}

RedirectRule ==
    IF resp.upstream.ctype \in Playable
    THEN /\ resp.status # 302
         /\ resp.headers.ctype = resp.upstream.ctype
         /\ resp.headers.location = NoLocation
    ELSE /\ resp.status = 302
         /\ resp.headers.location = relay_mp3_url(resp.user, resp.track, resp.query)

\* C22: when the origin's Content-Type is not one of audio/mpeg, audio/aac,
\* audio/mp4, audio/x-m4a the relay answers 302 to the transcode endpoint
\* for the same user_id and track_id, with the query string of the request;
\* when it is one of them the relay does not redirect and delivers the
\* origin's response.
C22_Redirect == Answered => RedirectRule

\* C22 for the relay of streamer_api/routes/core.py alone
C22_RedirectInApi == (Answered /\ resp.app = "api") => RedirectRule

(* ------------------------- claims on the streams ---------------------- *)
\* the client of a GET relay stream is gone
RelayClientGone ==
    /\ resp.op = "relay"
    /\ resp.stream.kind = "upstream"
    /\ resp.stream.client = "gone"

UpstreamClosed == resp.stream.kind = "upstream" /\ ~resp.stream.open

\* C23: when the client disconnects during a GET relay stream, the upstream
\* response is eventually closed and no chunk is read from it any more.
C23_DisconnectClosesUpstream ==
    RelayClientGone ~> [](UpstreamClosed /\ ~ENABLED Pull)

\* the request of an encoder is finished: its response is over
EncoderRequestOver ==
    /\ resp.op = "relay_mp3"
    /\ resp.stream.kind = "encoder"
    /\ resp.stream.over

EncoderLive == resp.stream.kind = "encoder" /\ resp.stream.open

\* C24: every encoder process spawned by a GET on relay_mp3 is eventually
\* terminated, on each exit path: end of the encoder's output, client
\* disconnect while streaming or before the first chunk, error while
\* streaming.
C24_EncoderTerminated == EncoderRequestOver ~> ~EncoderLive

\* C24, the part that relay_mp3.gen itself ensures: an encoder whose
\* generator finished, by its end or by an error, has been killed
C24_KilledWhenGeneratorEnds ==
    (resp.stream.kind = "encoder" /\ resp.stream.gen = "finished") => ~resp.stream.open

\* C24 on the path of a generator that never started: once finalized, the
\* encoder is gone
C24_KilledWhenNeverStarted ==
    (resp.stream.kind = "encoder" /\ resp.stream.gen = "collected") => ~resp.stream.open

(* ----------------------- claims on the transcode endpoint ------------- *)
\* Cache-Control values that forbid storing
NoStore == {"no-store", "no-store, must-revalidate"}

\* the response relay_mp3 gives to the request that resp' answers, had the
\* client sent no Range header
WithoutRange ==
    Response(Run(Shared, ReqRelayMp3(resp'.user, resp'.track, resp'.method, NoHeader,
                                     resp'.spawn, resp'.chunks)).l)

\* C25: relay_mp3 ignores the client's Range header (the response is the
\* one it gives without Range, and never 416); its answers carry
\* Accept-Ranges: none and a no-store Cache-Control; to HEAD it answers
\* headers only, Content-Length 0, and spawns no encoder.
C25_TranscodeIgnoresRange ==
    [][(Served /\ resp'.op = "relay_mp3")
       => /\ resp'.status # 416
          /\ [resp' EXCEPT !.range = NoHeader] = WithoutRange
          /\ resp'.status = 200
             => /\ resp'.headers.accept = "none"
                /\ resp'.headers.cache \in NoStore
          /\ (resp'.status = 200 /\ resp'.method = "HEAD")
             => /\ resp'.headers.clen = 0
                /\ resp'.stream = NoStream]_vars

\* a HEAD with a Range header, answered 200
C25_Witness ==
    /\ resp.op = "relay_mp3" /\ resp.method = "HEAD"
    /\ resp.range = "bytes=1-"
    /\ resp.status = 200
    /\ resp.headers.clen = 0

(* ------------------------ claims on the fingerprint ------------------- *)
\* the files that differ from f in path, size or mtime and are hashed from
\* the bytes f is hashed from
SameBytes(f) ==
    {g \in Files : g # f /\ Fingerprinted(g.path, g.size, g.mtime)
                            = Fingerprinted(f.path, f.size, f.mtime)}

Encodable(path) == \A i \in 1..Len(path) : path[i] \notin Surrogates

\* the first scan of a file
FirstTrackId == TrackId /\ resp.before = NoId

\* C26: _track_id is a function of (path, size, mtime); two triples that
\* differ in path, size or mtime are hashed from different byte strings;
\* a file whose size or mtime changed gets a different track_id.
C26_Fingerprint ==
    [][/\ TrackId
          => /\ resp'.id = _track_id(resp.file.path, resp.file.size, resp.file.mtime)
             /\ resp.before # NoId => resp'.id # resp.before
       /\ FirstTrackId => SameBytes(resp.file) = {}]_vars

\* C26 without the paths: a file whose size or mtime changed gets a
\* different track_id, and no file of the same path is hashed from the
\* same bytes
C26_ModifiedFileGetsNewId ==
    [][/\ TrackId => (resp.before # NoId => resp'.id # resp.before)
       /\ FirstTrackId => \A g \in SameBytes(resp.file) : g.path # resp.file.path]_vars

\* C26 for the paths that UTF-8 can encode
C26_DistinctWhenEncodable ==
    [][(FirstTrackId /\ Encodable(resp.file.path))
       => \A g \in SameBytes(resp.file) : ~Encodable(g.path)]_vars

(* -------------------------- claims on rel_path ------------------------ *)
\* every segment is the encoding of what it decodes to
EncodedOnce(rel) ==
    LET segs == SplitSlash(rel)
    IN  \A i \in 1..Len(segs) : Quote(Unquote(segs[i])) = segs[i]

\* C27: every rel_path that submit_scan stores is a fixed point of
\* normalize_rel_path (normalizing it again changes nothing), and each of
\* its segments carries one level of percent-encoding.
C27_NormalizeIdempotent ==
    [][/\ StoreTrack => EncodedOnce(resp'.out)
       /\ NormalizeAgain => resp'.out = resp.out]_vars

\* a path stored as x%20 and normalized again
C27_Witness ==
    /\ resp.op = "again"
    /\ resp.rel = <<"x", "%", "2", "0">>
    /\ resp.out = <<"x", "%", "2", "0">>

(* -------------------------- claims on the probe ----------------------- *)
\* the relay resolved the track to a URL, so it went on to the origin
Resolved == resp.op = "relay" /\ resp.url # NoStr

\* what the origin answers to the probe of the request resp answers
ProbeAnswer == OriginAnswer(resp.origin, "probe", "bytes=0-0")

\* the probe timed out or could not connect
ProbeRaised == ProbeAnswer = Unreachable

\* the probe failed: no answer, or an answer that is not 2xx
ProbeFailed == ProbeRaised \/ ProbeAnswer.status \notin 200..299

Downgraded ==
    /\ resp.fetches = 1
    /\ ~resp.accepts
    /\ ~Truthy(resp.range) => resp.sent = NoHeader

\* C28: a failed probe (timeout, no connection, or an answer that is not
\* 2xx) does not fail the request and does not mark the origin
\* range-capable: the relay goes on to the main fetch and sends no
\* synthetic Range header.
C28_FailedProbeDowngrades == (Resolved /\ ProbeFailed) => Downgraded

\* C28 for the probes that raise
C28_RaisedProbeDowngrades == (Resolved /\ ProbeRaised) => Downgraded

Probes(wire) == {i \in DOMAIN wire : wire[i].kind = "probe"}

MainFetches(wire) == {i \in DOMAIN wire : wire[i].kind = "main"}

ProbeFirst(wire) == \A i \in Probes(wire), j \in MainFetches(wire) : i < j

\* C29: the probe is sent for GET relay requests only; a HEAD relay request
\* sends no probe; a relay request sends at most one probe, and sends it
\* before the main fetch.
C29_ProbeForGetOnly ==
    resp.op = "relay"
    => /\ resp.method = "HEAD" => Probes(resp.wire) = {}
       /\ Cardinality(Probes(resp.wire)) <= 1
       /\ ProbeFirst(resp.wire)

\* C29, with the probe sent for HEAD as well: every relay request that
\* resolved its track sends one probe, before the main fetch; a request
\* that did not resolve sends none.
C29_OneProbeFirst ==
    resp.op = "relay"
    => /\ Cardinality(Probes(resp.wire)) = (IF Resolved THEN 1 ELSE 0)
       /\ ProbeFirst(resp.wire)

\* a HEAD request whose probe went out before its main fetch
C29_Witness ==
    /\ resp.op = "relay" /\ resp.method = "HEAD"
    /\ Len(resp.wire) = 2
    /\ resp.wire[1].kind = "probe"
    /\ resp.wire[2].kind = "main"

(* ----------------------- claims on the response headers --------------- *)
\* the relay delivers the origin's response
PassedThrough == Answered /\ resp.status # 302

CacheControlRule ==
    resp.headers.cache = IF Truthy(resp.upstream.cache) THEN resp.upstream.cache
                         ELSE "no-store"

\* only headers of the allow-list are copied, each with the origin's value
AllowListRule ==
    /\ resp.headers.server = NoHeader
    /\ Truthy(resp.upstream.ctype) => resp.headers.ctype = resp.upstream.ctype
    /\ resp.headers.clen = resp.upstream.clen

\* C30: a passthrough response copies from the origin only the headers of
\* the allow-list, always carries Accept-Ranges: bytes, and carries
\* Cache-Control: no-store unless the origin sent a Cache-Control, which
\* is kept.
C30_PassthroughHeaders ==
    PassedThrough
    => /\ AllowListRule
       /\ resp.headers.accept = "bytes"
       /\ CacheControlRule

\* C30 without Accept-Ranges
C30_AllowListAndCacheControl == PassedThrough => (AllowListRule /\ CacheControlRule)

\* C30 for the relay of streamer-agent/app/main.py
C30_AcceptRangesInAgentApp ==
    (PassedThrough /\ resp.app = "agent") => resp.headers.accept = "bytes"

(* ----------------------- claims on the read side ---------------------- *)
\* the operations that are meant to read only
ReadOps == {"relay", "relay_mp3", "agent_status", "get_library"}

NoCatalog == [m |-> EmptyMap, version |-> NONE, cleared |-> NONE]

\* the catalog the service holds for u: the one in memory, else the one in
\* its file, else none
Stored(s, u) ==
    IF Loaded(s, u) THEN MemView(s, u)
    ELSE IF s.libFiles[lib_path(u)].kind = "json" /\ s.libFiles[lib_path(u)].shape = "ok"
    THEN FileView(s, u)
    ELSE NoCatalog

\* base_url and last_seen of u as the next request reads them
AgentView(s, u) == load_agent(s, u).st

FilesUnchanged == libFiles' = libFiles /\ agentFiles' = agentFiles

\* C31: relay, relay_mp3, agent_status and get_library change no user's
\* tracks, version, cleared_for, base_url or last_seen and write no file,
\* whatever their outcome.
C31_ReadOnly ==
    [][(Served /\ resp'.op \in ReadOps)
       => (/\ \A u \in Users : Stored(SharedNext, u) = Stored(Shared, u)
           /\ \A u \in Users : AgentView(SharedNext, u) = AgentView(Shared, u)
           /\ FilesUnchanged)]_vars

\* C31, the part that holds: a read writes no file, changes no agent state
\* and changes no catalog that exists; it may only create the catalog of a
\* user that has none, with the clock as its version
C31_ReadsCreateOnly ==
    [][(Served /\ resp'.op \in ReadOps)
       => (/\ \A u \in Users :
                  \/ Stored(SharedNext, u) = Stored(Shared, u)
                  \/ /\ u = resp'.user
                     /\ Stored(Shared, u) = NoCatalog
                     /\ Stored(SharedNext, u) = [m |-> EmptyMap, version |-> now, cleared |-> 0]
           /\ \A u \in Users : AgentView(SharedNext, u) = AgentView(Shared, u)
           /\ FilesUnchanged)]_vars

\* a Range value the file server can satisfy for a file of size bytes:
\* bytes=<start>-[<end>] with start inside the file and end >= start
Satisfiable(h, size) ==
    /\ ParseRange(h).ok
    /\ ParseRange(h).start < size
    /\ ParseRange(h).end # NONE => ParseRange(h).end >= ParseRange(h).start

\* a relay request that resolved its track, the origin being the agent's
\* file server
RelayedToFileServer(r) ==
    /\ r.op = "relay"
    /\ r.fetches > 0
    /\ r.origin.kind = "files"

RECURSIVE Joined(_)
Joined(payloads) ==
    IF payloads = << >> THEN << >>
    ELSE Head(payloads).library \o Joined(Tail(payloads))

\* the call has returned and no post raised
SentAll(c) ==
    /\ c.pc = "done"
    /\ \A k \in DOMAIN c.outcomes : c.outcomes[k].kind # "raised"

\* C33: send_in_batches splits the track list into consecutive batches of
\* at most batch_size tracks that together hold every track once and in
\* order, sends every batch with the same library_version, and sets replace
\* on the first batch only, and only when replace was requested.
C33_Batches ==
    /\ \A k \in DOMAIN resp.posted :
           /\ Len(resp.posted[k].library) \in 1..resp.batch_size
           /\ resp.posted[k].library_version = resp.version
           /\ resp.posted[k].replace = (resp.replace /\ k = 1)
    /\ Joined(resp.posted) = SubSeq(resp.tracks, 1, Len(Joined(resp.posted)))
    /\ SentAll(resp) => Joined(resp.posted) = resp.tracks

\* three tracks sent in batches of two with replace, the clock having
\* advanced since the call began
C33_Witness ==
    /\ SentAll(resp)
    /\ resp.replace
    /\ Len(resp.tracks) = 3
    /\ resp.batch_size = 2
    /\ Len(resp.posted) = 2
    /\ now > resp.version

\* the first batch of a replace call was not applied
FirstNotApplied(c) ==
    /\ c.replace
    /\ Len(c.outcomes) >= 1
    /\ ~c.outcomes[1].applied

\* C34: in a replace call of send_in_batches, if the first batch is not
\* applied by the service, whether the post raised or was answered with a
\* status that is not a success, no later batch of the call is applied.
C34_FirstBatchGuardsSession ==
    FirstNotApplied(resp) => \A k \in 2..Len(resp.outcomes) : ~resp.outcomes[k].applied

\* C34 for a post that raises: the loop ends and nothing more is posted
C34_RaiseEndsSession ==
    \A k \in DOMAIN resp.outcomes :
        resp.outcomes[k].kind = "raised" => (k = Len(resp.outcomes) /\ resp.pc = "done")

\* the first batch was refused, a later one applied: the catalog holds a
\* record it had before the call, next to the new ones
C34_Merged ==
    /\ FirstNotApplied(resp)
    /\ resp.pc = "done"
    /\ \E k \in 2..Len(resp.outcomes) : resp.outcomes[k].applied
    /\ \E id \in DOMAIN MemView(Shared, resp.user).m :
           MemView(Shared, resp.user).m[id] \notin
               {StoredTrack(resp.tracks[j]) : j \in DOMAIN resp.tracks}

(* ------------------- claims on failed resolution ---------------------- *)
RelayOps == {"relay", "relay_mp3"}

\* the request sent nothing to the origin and started no encoder
NoOutbound(r) ==
    /\ r.wire = << >>
    /\ r.fetches = 0
    /\ r.stream.kind = "none"

\* the catalog and the agent state the request found
Catalog(u) == View(Shared, u).m
NoUrlFor(u, id) ==
    \/ Falsy(AgentView(Shared, u).base_url)
    \/ Catalog(u)[id].rel_path = NoStr

\* C35: a relay or relay_mp3 request that fails with 404 or 503 makes no
\* request to the origin and spawns no encoder, and the catalog lookup is
\* decided first.
C35_FailedMakesNoRequest ==
    (resp.op \in RelayOps /\ resp.status \in {404, 503}) => NoOutbound(resp)

\* C35 for the failures of the relay's own resolution: an unknown track_id
\* is answered 404, with or without a base_url, a known track without URL
\* 503, and neither sends anything to the origin or starts an encoder
C35_FailedResolution ==
    [][(Served /\ resp'.op \in RelayOps)
       => (/\ resp'.track \notin DOMAIN Catalog(resp'.user)
                => (resp'.status = 404 /\ NoOutbound(resp'))
           /\ (/\ resp'.track \in DOMAIN Catalog(resp'.user)
               /\ NoUrlFor(resp'.user, resp'.track))
                => (resp'.status = 503 /\ NoOutbound(resp')))]_vars

\* an unknown track of a user who never announced: 404, nothing sent
C35_Witness ==
    /\ resp.op = "relay"
    /\ resp.status = 404
    /\ resp.track \notin DOMAIN Catalog(resp.user)
    /\ Falsy(AgentView(Shared, resp.user).base_url)
    /\ NoOutbound(resp)

\* a known track without URL asked of relay_mp3: 503, no encoder
C35_WitnessNoUrl ==
    /\ resp.op = "relay_mp3"
    /\ resp.status = 503
    /\ resp.track \in DOMAIN Catalog(resp.user)
    /\ resp.stream.kind = "none"

(* ----------------------- claims on relay and last_seen ---------------- *)
\* what agent_status reports for u
ReportedOnline(u) ==
    Online(AgentView(Shared, u).base_url, AgentView(Shared, u).last_seen, now)

\* the request found the track in the catalog, with a rel_path, and a
\* stored base_url
HasUrl(u, id) ==
    /\ id \in DOMAIN Catalog(u)
    /\ Catalog(u)[id].rel_path # NoStr
    /\ ~Falsy(AgentView(Shared, u).base_url)

\* C36: whether the relay contacts the origin depends on the stored
\* base_url and the track's rel_path only, never on last_seen: for a user
\* that agent_status reports offline because last_seen is stale or was
\* reset by a restart, a relay request for a known track with rel_path goes
\* to the origin and does not fail with 503.
C36_RelayIgnoresLastSeen ==
    [][(Served /\ resp'.op = "relay")
       => (/\ HasUrl(resp'.user, resp'.track)
                => (resp'.wire # << >> /\ resp'.fetches = 1 /\ resp'.status # 503)
           /\ ~HasUrl(resp'.user, resp'.track) => NoOutbound(resp'))]_vars

\* a relay that went to the origin for a user whose last announce is older
\* than the freshness window
C36_Witness ==
    /\ resp.op = "relay"
    /\ resp.fetches = 1
    /\ AgentView(Shared, resp.user).last_seen > 0
    /\ now - AgentView(Shared, resp.user).last_seen >= FreshWindow
    /\ ~ReportedOnline(resp.user)

\* the same after a restart, which leaves last_seen 0
C36_WitnessRestart ==
    /\ resp.op = "relay"
    /\ resp.fetches = 1
    /\ AgentView(Shared, resp.user).last_seen = 0
    /\ ~ReportedOnline(resp.user)

(* -------------------- claims on the agent file ------------------------ *)
\* u has a base_url in memory: it announced, or its file was loaded
HasBaseUrl(u) == u \in DOMAIN AGENTS /\ AGENTS[u].base_url # NoneStr

\* the agent file of u holds the base_url that the memory holds
FileHoldsBaseUrl(u) ==
    /\ agentFiles[agent_path(u)].kind = "json"
    /\ agentFiles[agent_path(u)].base_url = AGENTS[u].base_url

\* C37: between two requests, for every user that has announced, the
\* base_url in the agent file equals the base_url in memory, for every
\* sequence of announces and restarts.
C37_FileEqualsMemory ==
    \A u \in Users : HasBaseUrl(u) => FileHoldsBaseUrl(u)

\* C37 for a user whose file no other user of the same file name has
\* written
C37_FileEqualsMemoryOwnFile ==
    \A u \in Users :
        (/\ HasBaseUrl(u)
         /\ \A v \in Users \ {u} : agent_path(v) = agent_path(u) => ~HasBaseUrl(v))
        => FileHoldsBaseUrl(u)

(* ------------------- claims on the synthesized 206 -------------------- *)
\* the relay answered 206 to a 200 of the origin
Synthesized(r) == r.op = "relay" /\ r.status = 206 /\ r.upstream.status = 200

\* bytes 0-L/total with L = total - 1 and 0 <= L < total
FullRange(cr, total) ==
    /\ cr = <<0, total - 1, total>>
    /\ 0 <= cr[2]
    /\ cr[2] < cr[3]

\* C38: whenever the relay synthesizes a 206, the Content-Range it emits is
\* well-formed for every Content-Length total of the origin, 0 included:
\* bytes 0-L/total with L = total - 1 and 0 <= L < total.
C38_SynthesizedRangeWellFormed ==
    Synthesized(resp) => FullRange(resp.headers.crange, resp.upstream.clen)

\* C38 for an origin body that is not empty
C38_WellFormedWhenNotEmpty ==
    (Synthesized(resp) /\ resp.upstream.clen > 0)
    => FullRange(resp.headers.crange, resp.upstream.clen)

\* a 206 synthesized over an empty body
C38_EmptyBody ==
    /\ Synthesized(resp)
    /\ resp.upstream.clen = 0
    /\ resp.headers.crange = <<0, -1, 0>>

(* ----------------- claims on the upstream response -------------------- *)
\* a relay GET that fetched from the origin and ended without streaming
EndedAfterFetch(r) ==
    /\ r.op = "relay"
    /\ r.method = "GET"
    /\ r.fetches = 1
    /\ r.upstream # Unreachable
    /\ r.stream.over

\* C39: every origin response opened by a relay GET is released on every
\* exit path of the request: on the redirect (302) path and on the
\* upstream-error path it is closed or read to its end before the request
\* finishes, so no finished request leaves an open upstream connection.
C39_UpstreamReleased ==
    EndedAfterFetch(resp) => (resp.stream.kind = "upstream" /\ ~resp.stream.open)

\* C39 on the upstream-error path, where upstream.text reads the body out
C39_ReleasedOnUpstreamError ==
    (EndedAfterFetch(resp) /\ resp.status >= 400)
    => (resp.stream.kind = "upstream" /\ ~resp.stream.open)

\* a redirect to relay_mp3 with the upstream response still open
C39_OpenAfterRedirect ==
    /\ EndedAfterFetch(resp)
    /\ resp.status = 302
    /\ resp.stream.open

(* --------------------- claims on migrate_relpaths --------------------- *)
\* this request is a migrate_relpaths of the user whose migrate_relpaths
\* was the request before it, and that one succeeded
MigratedAgain ==
    /\ Served
    /\ resp.op = "migrate_relpaths" /\ resp.status = 200
    /\ resp'.op = "migrate_relpaths" /\ resp'.user = resp.user

\* the request changed no record, no version and no file
NothingMigrated ==
    /\ resp'.status = 200
    /\ resp'.changed = 0
    /\ View(SharedNext, resp'.user) = View(Shared, resp'.user)
    /\ resp'.version = View(Shared, resp'.user).version
    /\ FilesUnchanged

\* the catalogs of the service were all written by submit_scan
OnlyScanned == hist.start \in {AfterScan, ForgetMemory(AfterScan)}

\* C40: a second migrate_relpaths made directly after a first one changes
\* no record, reports changed=0 and leaves version and the file unchanged;
\* and on a catalog populated only through submit_scan the first call
\* already changes nothing.
C40_MigrateIdempotent ==
    [][(MigratedAgain => NothingMigrated)
       /\ ((Served /\ resp'.op = "migrate_relpaths" /\ OnlyScanned) => NothingMigrated)]_vars

\* a second migrate_relpaths after one that rewrote the legacy catalog
C40_Witness ==
    /\ hist.start = LegacyStart
    /\ ops = 2
    /\ resp.op = "migrate_relpaths" /\ resp.status = 200 /\ resp.changed = 0
    /\ resp.user \in hist.wrote
    /\ libFiles[lib_path(resp.user)] # LegacyLib
    /\ MemView(Shared, resp.user).m["A"].rel_path = normalize_rel_path(TrackA.rel_path)

====
